---------------------------- MODULE Spec2Model ----------------------------
(***************************************************************************)
(* Transcript-to-exercise pipeline of lesson-content-extractor.            *)
(*                                                                         *)
(* Python strings are modelled as sequences of one-character strings, so   *)
(* that lower(), strip(), split(), substring tests and the regular         *)
(* expressions of the source are computed, not assumed.                    *)
(*                                                                         *)
(* The module holds one specification per component:                       *)
(*   SpecEC     TextProcessor.extract_corrections / MistakeExtractor       *)
(*   SpecFIB    FillInBlankGenerator._create_exercise                      *)
(*   SpecGQ     GrammarQuestionGenerator.generate                          *)
(*   SpecCloze  AdvancedClozeGenerator.generate                            *)
(*   SpecPL     LessonProcessor.process_lesson                             *)
(*   SpecME     MistakeExtractor on one pair                               *)
(*   SpecSP     SpellingGenerator.generate                                 *)
(*   SpecFG     FillInBlankGenerator.generate                              *)
(*   SpecQC     QualityChecker.validate_exercises                          *)
(*   SpecBL     the balancing loop of LessonProcessor.process_lesson       *)
(*   FairSpecBL SpecBL with its steps taken as long as one is enabled      *)
(* Each specification drives its own variables and leaves the others at    *)
(* their idle value.                                                       *)
(***************************************************************************)
EXTENDS Naturals, Integers, Sequences, FiniteSets, TLC

VARIABLES
  \* ---- TextProcessor.extract_corrections / MistakeExtractor.extract ----
  ec_transcript,   \* the transcript argument
  ec_lines,        \* local `lines`
  ec_i,            \* loop index of `for i, line in enumerate(lines)` (1-based)
  ec_corrections,  \* local `corrections`
  ec_src,          \* history: for each recorded pair, the index of its teacher line
  ec_mistakes,     \* MistakeExtractor.extract's return value
  ec_pc,
  \* ---- FillInBlankGenerator: one candidate of generate ----
  fb_sentence,     \* the candidate sentence
  fb_target,       \* the word to blank
  fb_context,      \* 'correction' (from a mistake) or 'practice' (from a sentence)
  fb_result,       \* what _create_exercise returned
  fb_pc,
  \* ---- GrammarQuestionGenerator.generate ----
  gq_mistakes,     \* the mistakes argument
  gq_category,     \* the category_id argument
  gq_i,            \* position in grammar_mistakes (1-based)
  gq_questions,    \* local `questions`
  gq_seen,         \* local `seen_prompts`
  gq_rng,          \* state of the process-global pseudo-random source
  gq_pc,
  \* ---- AdvancedClozeGenerator.generate ----
  cz_sentences,    \* the sentences argument
  cz_vocab,        \* the vocabulary argument
  cz_quality,      \* local `quality_sentences`
  cz_i,            \* position in the loop that is running (1-based)
  cz_items,        \* local `cloze_items`
  cz_seen,         \* local `seen_sentences`
  cz_rng,          \* state of the process-global pseudo-random source
  cz_pc,
  \* ---- LessonProcessor.process_lesson ----
  pl_transcript,   \* the transcript argument
  pl_gemini,       \* GeminiHelper.enabled of the helpers built by __init__
  pl_stdout,       \* the encoding of standard output
  pl_vocabulary,   \* local `vocabulary`
  pl_mistakes,     \* local `mistakes`
  pl_sentences,    \* local `sentences`
  pl_generated,    \* history: the three lists as the generators returned them
  pl_lists,        \* locals `fib`, `flashcards`, `spelling`
  pl_errors,       \* quality_checker.errors
  pl_warnings,     \* quality_checker.warnings
  pl_ran,          \* history: the components whose entry point was called
  pl_exc,          \* the exception the try block raised, "none" when it did not
  pl_result,       \* the value returned
  pl_pc,
  \* ---- MistakeExtractor: one correction pair ----
  me_incorrect,    \* the incorrect argument
  me_correct,      \* the correct argument
  me_error_type,   \* what _categorize_error returned
  me_focus_word,   \* what _identify_focus_word returned
  me_pc,
  \* ---- SpellingGenerator.generate ----
  sp_vocabulary,   \* the vocabulary argument
  sp_mistakes,     \* the mistakes argument
  sp_words,        \* local `spelling_words`
  sp_result,       \* the value returned
  sp_pc,
  \* ---- FillInBlankGenerator.generate ----
  fg_mistakes,     \* the mistakes argument
  fg_sentences,    \* the sentences argument
  fg_rng,          \* the state of the pseudo-random generator at the call
  fg_acc,          \* locals `exercises` and `used_sentences`, and the generator
  fg_sources,      \* for each exercise the sentence it was built from
  fg_i,            \* position of the loop in its list
  fg_result,       \* the value returned
  fg_pc,
  \* ---- QualityChecker.validate_exercises ----
  qc_fill_in_blank, \* the fill_in_blank argument
  qc_flashcards,   \* the flashcards argument
  qc_spelling,     \* the spelling argument
  qc_stdout,       \* the encoding of standard output
  qc_errors,       \* self.errors
  qc_warnings,     \* self.warnings
  qc_result,       \* the value returned
  qc_left,         \* self.errors and self.warnings as the call found them
  qc_pc,
  \* ---- the balancing loop of LessonProcessor.process_lesson ----
  bl_generated,    \* the lists as the generators returned them
  bl_lists,        \* locals `fib`, `flashcards`, `spelling`
  bl_total,        \* local `total`
  bl_pc

ec_vars == <<ec_transcript, ec_lines, ec_i, ec_corrections, ec_src, ec_mistakes, ec_pc>>

fb_vars == <<fb_sentence, fb_target, fb_context, fb_result, fb_pc>>

gq_vars == <<gq_mistakes, gq_category, gq_i, gq_questions, gq_seen, gq_rng, gq_pc>>

cz_vars == <<cz_sentences, cz_vocab, cz_quality, cz_i, cz_items, cz_seen, cz_rng, cz_pc>>

pl_vars == <<pl_transcript, pl_gemini, pl_stdout, pl_vocabulary, pl_mistakes, pl_sentences,
             pl_generated, pl_lists, pl_errors, pl_warnings, pl_ran, pl_exc, pl_result, pl_pc>>

me_vars == <<me_incorrect, me_correct, me_error_type, me_focus_word, me_pc>>

sp_vars == <<sp_vocabulary, sp_mistakes, sp_words, sp_result, sp_pc>>

fg_vars == <<fg_mistakes, fg_sentences, fg_rng, fg_acc, fg_sources, fg_i, fg_result, fg_pc>>

qc_vars == <<qc_fill_in_blank, qc_flashcards, qc_spelling, qc_stdout, qc_errors, qc_warnings, qc_result,
            qc_left, qc_pc>>

bl_vars == <<bl_generated, bl_lists, bl_total, bl_pc>>

vars == <<ec_vars, fb_vars, gq_vars, cz_vars, pl_vars, me_vars, sp_vars, fg_vars, qc_vars, bl_vars>>

\* the value of the variables a specification does not drive
Idle == "idle"

(***************************************************************************)
(* Characters and strings                                                  *)
(***************************************************************************)
UpperSeq == <<"A","B","C","D","E","F","G","H","I","J","K","L","M",
              "N","O","P","Q","R","S","T","U","V","W","X","Y","Z">>
LowerSeq == <<"a","b","c","d","e","f","g","h","i","j","k","l","m",
              "n","o","p","q","r","s","t","u","v","w","x","y","z">>
UpperCh == {UpperSeq[k] : k \in 1..26}
LowerCh == {LowerSeq[k] : k \in 1..26}
DigitCh == {"0","1","2","3","4","5","6","7","8","9"}
\* \w of the re module, on the characters the model uses
WordCh  == UpperCh \cup LowerCh \cup DigitCh \cup {"_"}
\* \s and the default strip() set
SpaceCh == {" ", "\t", "\n", "\r"}
NL      == "\n"

\* str.lower() on one character
LowerOf(c) ==
  IF c \in UpperCh THEN LowerSeq[CHOOSE k \in 1..26 : UpperSeq[k] = c] ELSE c

\* str.lower()
Lower(s) == [k \in 1..Len(s) |-> LowerOf(s[k])]

\* s[a:b] with 1-based inclusive positions, empty when a > b
Sub(s, a, b) == IF a > b THEN <<>> ELSE SubSeq(s, a, b)

\* s.startswith(p, at position k)
MatchAt(s, k, p) ==
  /\ k >= 1
  /\ k + Len(p) - 1 <= Len(s)
  /\ \A j \in 1..Len(p) : s[k + j - 1] = p[j]

\* `p in s`
Contains(s, p) == \E k \in 1..(Len(s) + 1) : MatchAt(s, k, p)

\* s.strip(chars): drop leading and trailing characters of the set
StripSet(s, cs) ==
  LET keep == {k \in 1..Len(s) : s[k] \notin cs}
  IN  IF keep = {} THEN <<>>
      ELSE LET a == CHOOSE k \in keep : \A j \in keep : k <= j
               b == CHOOSE k \in keep : \A j \in keep : k >= j
           IN  SubSeq(s, a, b)

\* s.strip()
Strip(s) == StripSet(s, SpaceCh)

\* s.replace(p, "") for a non-empty p: leftmost non-overlapping occurrences
RECURSIVE RemoveAll(_, _)
RemoveAll(s, p) ==
  IF Len(s) = 0 THEN <<>>
  ELSE IF MatchAt(s, 1, p) THEN RemoveAll(Sub(s, Len(p) + 1, Len(s)), p)
  ELSE <<s[1]>> \o RemoveAll(Tail(s), p)

\* s.split(sep) for a one-character sep: always at least one piece
RECURSIVE SplitOn(_, _)
SplitOn(s, sep) ==
  IF \A k \in 1..Len(s) : s[k] # sep THEN <<s>>
  ELSE LET p == CHOOSE k \in 1..Len(s) : s[k] = sep /\ \A j \in 1..(k-1) : s[j] # sep
       IN  <<Sub(s, 1, p - 1)>> \o SplitOn(Sub(s, p + 1, Len(s)), sep)

\* s.split(): maximal runs of non-whitespace characters
RECURSIVE SplitWS(_)
SplitWS(s) ==
  LET t == Strip(s)
  IN  IF Len(t) = 0 THEN <<>>
      ELSE IF \A k \in 1..Len(t) : t[k] \notin SpaceCh THEN <<t>>
      ELSE LET p == CHOOSE k \in 1..Len(t) :
                      t[k] \in SpaceCh /\ \A j \in 1..(k-1) : t[j] \notin SpaceCh
           IN  <<Sub(t, 1, p - 1)>> \o SplitWS(Sub(t, p + 1, Len(t)))

\* sep.join(parts)
RECURSIVE Join(_, _)
Join(parts, sep) ==
  IF Len(parts) = 0 THEN <<>>
  ELSE IF Len(parts) = 1 THEN parts[1]
  ELSE parts[1] \o sep \o Join(Tail(parts), sep)

\* the elements of a sequence
Range(q) == {q[k] : k \in 1..Len(q)}

\* all sequences over S of length at most n
SeqUpTo(S, n) == UNION {[1..k -> S] : k \in 0..n}


(***************************************************************************)
(* Literals of the source                                                  *)
(***************************************************************************)
L_Teacher    == <<"T","e","a","c","h","e","r",":">>
L_Student    == <<"S","t","u","d","e","n","t",":">>
L_orrect     == <<"o","r","r","e","c","t">>
L_ion        == <<"i","o","n">>
L_TheCorrect == <<"T","h","e"," ","c","o","r","r","e","c","t"," ","s","e","n","t","e","n","c","e"," ","i","s">>
L_should     == <<"s","h","o","u","l","d">>
L_be         == <<"b","e">>
L_etter      == <<"e","t","t","e","r">>
\* the characters of strip('\"<curly quotes>\' '); the curly quotes never occur in
\* the model's inputs and are left out
QuoteCh      == {"\"", "'", " "}
\* the characters [.!?] that end the captured group ([^.!?]+)
EndCh        == {".", "!", "?"}
\* the characters of strip('.,!?"')
PunctCh      == {".", ",", "!", "?", "\""}

(***************************************************************************)
(* TextProcessor.extract_corrections                                       *)
(***************************************************************************)
\* the first position >= k of s whose character is outside cs (Len(s)+1 if none):
\* where a greedy run [cs]* starting at k ends
SkipSet(s, k, cs) ==
  LET stop == {j \in k..Len(s) : s[j] \notin cs}
  IN  IF stop = {} THEN Len(s) + 1 ELSE CHOOSE j \in stop : \A h \in stop : j <= h

\* an optional literal at k: the position after it when present, else k
SkipLit(s, k, p) == IF MatchAt(s, k, p) THEN k + Len(p) ELSE k

\* every character of the model's strings
AllCh == WordCh \cup SpaceCh \cup {".", ",", "!", "?", ":", "\"", "'", "-"}

\* the capture group ([A-Z][^.!?]+) anchored at e: its text, or <<>> when it does
\* not match (a match has at least two characters)
Group(s, e) ==
  IF /\ e >= 1
     /\ e + 1 <= Len(s)
     /\ s[e] \in UpperCh
     /\ s[e + 1] \notin EndCh
  THEN Sub(s, e, SkipSet(s, e + 1, AllCh \ EndCh) - 1)
  ELSE <<>>

\* Where the capture group starts when pattern n matches with its first
\* character at p, 0 when the part before the group does not match at p.
\* Optional parts are taken when present: skipping a present "ion" or ":"
\* leaves a character that the following \s+ cannot match, so the regex
\* engine's backtracking finds nothing else.
\*   1  [Cc]orrect(?:ion)?[:]?\s+(...)
\*   2  The correct sentence is[:\s]+(...)
\*   3  (?:It\s+)?should\s+be[:\s]+(...)   (the optional "It " prefix moves the
\*      start of the match, never the group)
\*   4  [Bb]etter[:\s]+(...)
\*   5  [Cc]orrect[:\s]+(...)
GroupStart(n, s, p) ==
  LET sep == SpaceCh \cup {":"}
  IN  CASE n = 1 ->
             IF s[p] \in {"C", "c"} /\ MatchAt(s, p + 1, L_orrect)
             THEN LET k == SkipLit(s, SkipLit(s, p + 7, L_ion), <<":">>)
                      e == SkipSet(s, k, SpaceCh)
                  IN  IF e > k THEN e ELSE 0
             ELSE 0
        [] n = 2 ->
             IF MatchAt(s, p, L_TheCorrect)
             THEN LET k == p + Len(L_TheCorrect)
                      e == SkipSet(s, k, sep)
                  IN  IF e > k THEN e ELSE 0
             ELSE 0
        [] n = 3 ->
             IF MatchAt(s, p, L_should)
             THEN LET k1 == SkipSet(s, p + 6, SpaceCh)
                      k2 == k1 + 2
                      e  == SkipSet(s, k2, sep)
                  IN  IF k1 > p + 6 /\ MatchAt(s, k1, L_be) /\ e > k2 THEN e ELSE 0
             ELSE 0
        [] n = 4 ->
             IF s[p] \in {"B", "b"} /\ MatchAt(s, p + 1, L_etter)
             THEN LET e == SkipSet(s, p + 6, sep) IN IF e > p + 6 THEN e ELSE 0
             ELSE 0
        [] OTHER ->
             IF s[p] \in {"C", "c"} /\ MatchAt(s, p + 1, L_orrect)
             THEN LET e == SkipSet(s, p + 7, sep) IN IF e > p + 7 THEN e ELSE 0
             ELSE 0

\* re.search(patterns[n], s): group(1) of the leftmost match, <<>> when none
Search(n, s) ==
  LET hits == {p \in 1..Len(s) :
                 GroupStart(n, s, p) > 0 /\ Group(s, GroupStart(n, s, p)) # <<>>}
  IN  IF hits = {} THEN <<>>
      ELSE Group(s, GroupStart(n, s, CHOOSE p \in hits : \A q \in hits : p <= q))

\* the patterns that match the teacher line
Matching(tl) == {n \in 1..5 : Search(n, tl) # <<>>}

\* "Teacher:" in line / "Student:" in line
IsTeacherLine(line) == Contains(line, L_Teacher)
IsStudentLine(line) == Contains(line, L_Student)

\* line.replace("Teacher:", "").strip()
TeacherText(line) == Strip(RemoveAll(line, L_Teacher))

\* lines[i - 1].replace("Student:", "").strip().strip(quotes)
StudentText(line) == StripSet(Strip(RemoveAll(line, L_Student)), QuoteCh)

\* match.group(1).strip().strip(quotes) of the first pattern that matches
CorrectText(tl) ==
  LET n == CHOOSE k \in Matching(tl) : \A j \in Matching(tl) : k <= j
  IN  StripSet(Strip(Search(n, tl)), QuoteCh)


\* lines 23-28: the transcript cut into lines. With a newline in it:
\* transcript.strip().split("\n"). Without: re.split on the zero-width
\* positions where "Teacher:" or "Student:" starts, each piece stripped and the
\* empty pieces dropped.
RECURSIVE CutAt(_, _, _)
CutAt(s, from, marks) ==
  LET later == {k \in marks : k > from}
  IN  IF later = {} THEN <<Sub(s, from, Len(s))>>
      ELSE LET k == CHOOSE x \in later : \A y \in later : x <= y
           IN  <<Sub(s, from, k - 1)>> \o CutAt(s, k, marks)

SplitLines(transcript) ==
  IF \E k \in 1..Len(transcript) : transcript[k] = NL
  THEN SplitOn(Strip(transcript), NL)
  ELSE LET t      == Strip(transcript)
           marks  == {k \in 1..Len(t) : MatchAt(t, k, L_Teacher) \/ MatchAt(t, k, L_Student)}
           pieces == CutAt(t, 1, marks)
       IN  SelectSeq([k \in 1..Len(pieces) |-> Strip(pieces[k])], LAMBDA x : x # <<>>)

\* CorrectionOfLine with the student turn looked up as the nearest earlier
\* student line instead of the line immediately before
CorrectionOfLine_NearestStudent(lines, i) ==
  IF ~IsTeacherLine(lines[i]) THEN <<>>
  ELSE LET tl      == TeacherText(lines[i])
           earlier == {k \in 1..(i - 1) : IsStudentLine(lines[k])}
       IN  IF Matching(tl) = {} \/ earlier = {} THEN <<>>
           ELSE LET k         == CHOOSE x \in earlier : \A y \in earlier : x >= y
                    incorrect == StudentText(lines[k])
                    correct   == CorrectText(tl)
                IN  IF incorrect # <<>> /\ correct # <<>>
                    THEN << <<incorrect, correct>> >>
                    ELSE <<>>

\* lines 30-58, one iteration of the loop over the lines: the pairs line i adds
\* to `corrections` (none or one). The first matching pattern decides; the
\* loop over the patterns breaks after it whether or not a pair is appended.
CorrectionOfLine(lines, i) ==
  IF ~IsTeacherLine(lines[i]) THEN <<>>
  ELSE LET tl == TeacherText(lines[i])
       IN  IF Matching(tl) = {} THEN <<>>
           ELSE IF i > 1 /\ IsStudentLine(lines[i - 1])
                THEN LET incorrect == StudentText(lines[i - 1])
                         correct   == CorrectText(tl)
                     IN  IF incorrect # <<>> /\ correct # <<>>
                         THEN << <<incorrect, correct>> >>
                         ELSE <<>>
                ELSE <<>>

(***************************************************************************)
(* MistakeExtractor                                                        *)
(***************************************************************************)
\* the error types _categorize_error returns
ET_grammar_past_tense == <<"g","r","a","m","m","a","r","_","p","a","s","t","_","t","e","n","s","e">>
ET_grammar_verb_tense == <<"g","r","a","m","m","a","r","_","v","e","r","b","_","t","e","n","s","e">>
ET_grammar_subject_verb_agreement == <<"g","r","a","m","m","a","r","_","s","u","b","j","e","c","t","_","v","e","r","b","_","a","g","r","e","e","m","e","n","t">>
ET_grammar_articles == <<"g","r","a","m","m","a","r","_","a","r","t","i","c","l","e","s">>
ET_grammar_plural == <<"g","r","a","m","m","a","r","_","p","l","u","r","a","l">>
ET_grammar_prepositions == <<"g","r","a","m","m","a","r","_","p","r","e","p","o","s","i","t","i","o","n","s">>
ET_grammar_gerund_infinitive == <<"g","r","a","m","m","a","r","_","g","e","r","u","n","d","_","i","n","f","i","n","i","t","i","v","e">>
ET_vocabulary_word_form == <<"v","o","c","a","b","u","l","a","r","y","_","w","o","r","d","_","f","o","r","m">>
ET_grammar_sentence_structure == <<"g","r","a","m","m","a","r","_","s","e","n","t","e","n","c","e","_","s","t","r","u","c","t","u","r","e">>
ET_grammar_general == <<"g","r","a","m","m","a","r","_","g","e","n","e","r","a","l">>
L_grammar == <<"g","r","a","m","m","a","r">>

\* _categorize_error, lines 34-88: the first rule whose substrings occur
Has(s, t) == Contains(s, t)

\* the categories in the order of the rules, lines 40-86
RuleTypes == <<ET_grammar_past_tense, ET_grammar_verb_tense, ET_grammar_subject_verb_agreement,
               ET_grammar_articles, ET_grammar_plural, ET_grammar_prepositions,
               ET_grammar_gerund_infinitive, ET_vocabulary_word_form,
               ET_grammar_sentence_structure>>

\* the substring pairs <<in incorrect, in correct>> of each rule
RulePairs == <<
  {<<<<"g","o">>, <<"w","e","n","t">>>>, <<<<"b","u","y">>, <<"b","o","u","g","h","t">>>>, <<<<"s","t","a","y">>, <<"s","t","a","y","e","d">>>>},
  {<<<<"w","a","k","i","n","g">>, <<"w","a","k","e">>>>, <<<<"c","o","o","k","i","n","g">>, <<"c","o","o","k","e","d">>>>},
  {<<<<"i"," ","e","a","t","s">>, <<"i"," ","e","a","t">>>>, <<<<"i"," ","l","i","k","e","s">>, <<"i"," ","l","i","k","e">>>>, <<<<"h","e"," ","e","a","t">>, <<"h","e"," ","e","a","t","s">>>>},
  {<<<<"i","s"," ","e","n","g","i","n","e","e","r">>, <<"i","s"," ","a","n"," ","e","n","g","i","n","e","e","r">>>>, <<<<"i","s"," ","t","e","a","c","h","e","r">>, <<"i","s"," ","a"," ","t","e","a","c","h","e","r">>>>, <<<<"t","o"," ","m","a","r","k","e","t">>, <<"t","o"," ","t","h","e"," ","m","a","r","k","e","t">>>>},
  {<<<<"e","g","g">>, <<"e","g","g","s">>>>, <<<<"v","e","g","e","t","a","b","l","e">>, <<"v","e","g","e","t","a","b","l","e","s">>>>, <<<<"d","a","y">>, <<"d","a","y","s">>>>},
  {<<<<"l","i","s","t","e","n","i","n","g"," ","m","u","s","i","c">>, <<"l","i","s","t","e","n","i","n","g"," ","t","o"," ","m","u","s","i","c">>>>, <<<<"p","l","a","y"," ","f","o","o","t","b","a","l","l">>, <<"p","l","a","y","i","n","g"," ","f","o","o","t","b","a","l","l">>>>},
  {<<<<"l","i","k","e"," ","p","l","a","y">>, <<"l","i","k","e"," ","p","l","a","y","i","n","g">>>>, <<<<"e","n","j","o","y"," ","t","o">>, <<"e","n","j","o","y">>>>},
  {<<<<"c","o","m","f","o","r","t">>, <<"c","o","m","f","o","r","t","a","b","l","e">>>>, <<<<"b","e","a","u","t","y">>, <<"b","e","a","u","t","i","f","u","l">>>>},
  {<<<<"h","a","v","e"," ","f","i","v","e"," ","p","e","o","p","l","e">>, <<"a","r","e"," ","f","i","v","e"," ","p","e","o","p","l","e">>>>} >>

\* the substring predicate of rule n on the lower-cased pair; the first rule
\* also asks for 'yesterday' or 'last' in the correct sentence
RuleHolds(n, inc, cor) ==
  /\ n = 1 => Has(cor, <<"y","e","s","t","e","r","d","a","y">>) \/ Has(cor, <<"l","a","s","t">>)
  /\ \E p \in RulePairs[n] : Has(inc, p[1]) /\ Has(cor, p[2])

\* the rules that hold for a pair
RulesHolding(incorrect, correct) ==
  {n \in 1..Len(RuleTypes) : RuleHolds(n, Lower(incorrect), Lower(correct))}

\* the category of the last rule that holds instead of the first
CategorizeError_LastRule(incorrect, correct) ==
  IF RulesHolding(incorrect, correct) = {} THEN ET_grammar_general
  ELSE RuleTypes[CHOOSE n \in RulesHolding(incorrect, correct) :
                   \A k \in RulesHolding(incorrect, correct) : k <= n]

CategorizeError(incorrect, correct) ==
  LET inc == Lower(incorrect)
      cor == Lower(correct)
  IN  IF /\ Has(cor, <<"y","e","s","t","e","r","d","a","y">>) \/ Has(cor, <<"l","a","s","t">>)
         /\ \/ Has(inc, <<"g","o">>) /\ Has(cor, <<"w","e","n","t">>)
            \/ Has(inc, <<"b","u","y">>) /\ Has(cor, <<"b","o","u","g","h","t">>)
            \/ Has(inc, <<"s","t","a","y">>) /\ Has(cor, <<"s","t","a","y","e","d">>)
      THEN ET_grammar_past_tense
      ELSE IF \/ Has(inc, <<"w","a","k","i","n","g">>) /\ Has(cor, <<"w","a","k","e">>)
              \/ Has(inc, <<"c","o","o","k","i","n","g">>) /\ Has(cor, <<"c","o","o","k","e","d">>)
      THEN ET_grammar_verb_tense
      ELSE IF \/ Has(inc, <<"i"," ","e","a","t","s">>) /\ Has(cor, <<"i"," ","e","a","t">>)
              \/ Has(inc, <<"i"," ","l","i","k","e","s">>) /\ Has(cor, <<"i"," ","l","i","k","e">>)
              \/ Has(inc, <<"h","e"," ","e","a","t">>) /\ Has(cor, <<"h","e"," ","e","a","t","s">>)
      THEN ET_grammar_subject_verb_agreement
      ELSE IF \/ Has(inc, <<"i","s"," ","e","n","g","i","n","e","e","r">>) /\ Has(cor, <<"i","s"," ","a","n"," ","e","n","g","i","n","e","e","r">>)
              \/ Has(inc, <<"i","s"," ","t","e","a","c","h","e","r">>) /\ Has(cor, <<"i","s"," ","a"," ","t","e","a","c","h","e","r">>)
              \/ Has(inc, <<"t","o"," ","m","a","r","k","e","t">>) /\ Has(cor, <<"t","o"," ","t","h","e"," ","m","a","r","k","e","t">>)
      THEN ET_grammar_articles
      ELSE IF \/ Has(inc, <<"e","g","g">>) /\ Has(cor, <<"e","g","g","s">>)
              \/ Has(inc, <<"v","e","g","e","t","a","b","l","e">>) /\ Has(cor, <<"v","e","g","e","t","a","b","l","e","s">>)
              \/ Has(inc, <<"d","a","y">>) /\ Has(cor, <<"d","a","y","s">>)
      THEN ET_grammar_plural
      ELSE IF \/ Has(inc, <<"l","i","s","t","e","n","i","n","g"," ","m","u","s","i","c">>) /\ Has(cor, <<"l","i","s","t","e","n","i","n","g"," ","t","o"," ","m","u","s","i","c">>)
              \/ Has(inc, <<"p","l","a","y"," ","f","o","o","t","b","a","l","l">>) /\ Has(cor, <<"p","l","a","y","i","n","g"," ","f","o","o","t","b","a","l","l">>)
      THEN ET_grammar_prepositions
      ELSE IF \/ Has(inc, <<"l","i","k","e"," ","p","l","a","y">>) /\ Has(cor, <<"l","i","k","e"," ","p","l","a","y","i","n","g">>)
              \/ Has(inc, <<"e","n","j","o","y"," ","t","o">>) /\ Has(cor, <<"e","n","j","o","y">>)
      THEN ET_grammar_gerund_infinitive
      ELSE IF \/ Has(inc, <<"c","o","m","f","o","r","t">>) /\ Has(cor, <<"c","o","m","f","o","r","t","a","b","l","e">>)
              \/ Has(inc, <<"b","e","a","u","t","y">>) /\ Has(cor, <<"b","e","a","u","t","i","f","u","l">>)
      THEN ET_vocabulary_word_form
      ELSE IF Has(inc, <<"h","a","v","e"," ","f","i","v","e"," ","p","e","o","p","l","e">>) /\ Has(cor, <<"a","r","e"," ","f","i","v","e"," ","p","e","o","p","l","e">>)
      THEN ET_grammar_sentence_structure
      ELSE ET_grammar_general

\* _identify_focus_word, lines 90-110
IdentifyFocusWord(incorrect, correct) ==
  LET inc_split == SplitWS(Lower(incorrect))
      inc_words == Range(inc_split)
      cor_words == SplitWS(Lower(correct))
      added     == {k \in 1..Len(cor_words) :
                      /\ StripSet(cor_words[k], PunctCh) # <<>>
                      /\ StripSet(cor_words[k], PunctCh) \notin inc_words}
      changed   == {k \in 1..Len(cor_words) :
                      k <= Len(inc_split) /\ cor_words[k] # inc_split[k]}
  IN  IF added # {}
      THEN StripSet(cor_words[CHOOSE k \in added : \A j \in added : k <= j], PunctCh)
      ELSE IF changed # {}
      THEN StripSet(cor_words[CHOOSE k \in changed : \A j \in changed : k <= j], PunctCh)
      ELSE IF Len(cor_words) > 0 THEN StripSet(cor_words[1], PunctCh)
      ELSE <<>>

\* extract, lines 19-30: the mistake built from one correction pair
MistakeOf(pair) ==
  LET error_type == CategorizeError(pair[1], pair[2])
  IN  [incorrect  |-> pair[1],
       correct    |-> pair[2],
       error_type |-> error_type,
       focus_word |-> IdentifyFocusWord(pair[1], pair[2]),
       severity   |-> IF Has(error_type, L_grammar) THEN "high" ELSE "medium"]


(***************************************************************************)
(* MistakeExtractor.extract over extract_corrections, line by line         *)
(***************************************************************************)
\* the lines transcripts are made of
LN_StudentEats == <<"S","t","u","d","e","n","t",":"," ","I"," ","e","a","t","s",".">>
LN_Correction == <<"T","e","a","c","h","e","r",":"," ","C","o","r","r","e","c","t","i","o","n",":"," ","I"," ","e","a","t",".">>
LN_CorrectionQuoted == <<"T","e","a","c","h","e","r",":"," ","C","o","r","r","e","c","t","i","o","n",":"," ","\"","I"," ","e","a","t",".","\"">>
LN_TheCorrectQuoted == <<"T","e","a","c","h","e","r",":"," ","T","h","e"," ","c","o","r","r","e","c","t"," ","s","e","n","t","e","n","c","e"," ","i","s"," ","\"","I"," ","e","a","t",".","\"">>
LN_Blank == <<>>
LN_TeacherNice == <<"T","e","a","c","h","e","r",":"," ","N","i","c","e",".">>
LN_StudentEmpty == <<"S","t","u","d","e","n","t",":">>
LN_Both == <<"T","e","a","c","h","e","r",":"," ","H","i"," ","S","t","u","d","e","n","t",":"," ","I"," ","e","a","t","s",".">>

LinePool == {LN_StudentEats, LN_Correction, LN_CorrectionQuoted, LN_TheCorrectQuoted,
             LN_Blank, LN_TeacherNice, LN_StudentEmpty, LN_Both}

\* the longest transcript, in lines
MaxLines == 4

\* the transcripts: lines joined by newlines, or written inline with spaces
EC_Transcripts ==
  {Join(ls, <<NL>>) : ls \in SeqUpTo(LinePool, MaxLines)}
    \cup {Join(ls, <<" ">>) : ls \in SeqUpTo(LinePool \ {LN_Blank}, MaxLines)}

EC_Idle ==
  /\ ec_transcript = Idle /\ ec_lines = Idle /\ ec_i = Idle /\ ec_corrections = Idle
  /\ ec_src = Idle /\ ec_mistakes = Idle /\ ec_pc = Idle
FB_Idle ==
  /\ fb_sentence = Idle /\ fb_target = Idle /\ fb_context = Idle /\ fb_result = Idle
  /\ fb_pc = Idle

GQ_Idle ==
  /\ gq_mistakes = Idle /\ gq_category = Idle /\ gq_i = Idle /\ gq_questions = Idle
  /\ gq_seen = Idle /\ gq_rng = Idle /\ gq_pc = Idle

CZ_Idle ==
  /\ cz_sentences = Idle /\ cz_vocab = Idle /\ cz_quality = Idle /\ cz_i = Idle
  /\ cz_items = Idle /\ cz_seen = Idle /\ cz_rng = Idle /\ cz_pc = Idle

PL_Idle ==
  /\ pl_transcript = Idle /\ pl_gemini = Idle /\ pl_stdout = Idle /\ pl_vocabulary = Idle
  /\ pl_mistakes = Idle /\ pl_sentences = Idle /\ pl_generated = Idle /\ pl_lists = Idle
  /\ pl_errors = Idle /\ pl_warnings = Idle /\ pl_ran = Idle /\ pl_exc = Idle
  /\ pl_result = Idle /\ pl_pc = Idle

ME_Idle ==
  /\ me_incorrect = Idle
  /\ me_correct = Idle
  /\ me_error_type = Idle
  /\ me_focus_word = Idle
  /\ me_pc = Idle

SP_Idle ==
  /\ sp_vocabulary = Idle
  /\ sp_mistakes = Idle
  /\ sp_words = Idle
  /\ sp_result = Idle
  /\ sp_pc = Idle

FG_Idle ==
  /\ fg_mistakes = Idle
  /\ fg_sentences = Idle
  /\ fg_rng = Idle
  /\ fg_acc = Idle
  /\ fg_sources = Idle
  /\ fg_i = Idle
  /\ fg_result = Idle
  /\ fg_pc = Idle

QC_Idle ==
  /\ qc_fill_in_blank = Idle
  /\ qc_flashcards = Idle
  /\ qc_spelling = Idle
  /\ qc_stdout = Idle
  /\ qc_errors = Idle
  /\ qc_warnings = Idle
  /\ qc_result = Idle
  /\ qc_left = Idle
  /\ qc_pc = Idle

BL_Idle ==
  /\ bl_generated = Idle
  /\ bl_lists = Idle
  /\ bl_total = Idle
  /\ bl_pc = Idle

\* what the steps of this component leave alone
EC_Frame == UNCHANGED <<fb_vars, gq_vars, cz_vars, pl_vars, me_vars, sp_vars, fg_vars, qc_vars, bl_vars>>

EC_Init ==
  /\ BL_Idle
  /\ QC_Idle
  /\ FG_Idle
  /\ SP_Idle
  /\ ME_Idle
  /\ FB_Idle
  /\ GQ_Idle
  /\ CZ_Idle
  /\ PL_Idle
  /\ ec_transcript \in EC_Transcripts
  /\ ec_lines = <<>>
  /\ ec_i = 0
  /\ ec_corrections = <<>>
  /\ ec_src = <<>>
  /\ ec_mistakes = <<>>
  /\ ec_pc = "split"

\* extract_corrections lines 20-28
EC_Split ==
  /\ ec_pc = "split"
  /\ ec_lines' = SplitLines(ec_transcript)
  /\ ec_i' = 1
  /\ ec_pc' = "loop"
  /\ UNCHANGED <<ec_transcript, ec_corrections, ec_src, ec_mistakes>>
  /\ EC_Frame

\* extract_corrections lines 30-58: one iteration of the loop over the lines
EC_Line ==
  /\ ec_pc = "loop"
  /\ ec_i <= Len(ec_lines)
  /\ LET found == CorrectionOfLine(ec_lines, ec_i)
     IN  /\ ec_corrections' = ec_corrections \o found
         /\ ec_src' = ec_src \o [k \in 1..Len(found) |-> ec_i]
  /\ ec_i' = ec_i + 1
  /\ UNCHANGED <<ec_transcript, ec_lines, ec_mistakes, ec_pc>>
  /\ EC_Frame

\* extract_corrections line 59 and MistakeExtractor.extract lines 19-32
EC_Return ==
  /\ ec_pc = "loop"
  /\ ec_i > Len(ec_lines)
  /\ ec_mistakes' = [k \in 1..Len(ec_corrections) |-> MistakeOf(ec_corrections[k])]
  /\ ec_pc' = "done"
  /\ UNCHANGED <<ec_transcript, ec_lines, ec_i, ec_corrections, ec_src>>
  /\ EC_Frame

EC_Next == EC_Split \/ EC_Line \/ EC_Return

SpecEC == EC_Init /\ [][EC_Next]_vars


(***************************************************************************)
(* Claims on extract_corrections and MistakeExtractor.extract              *)
(***************************************************************************)
\* C9: the pairs are recorded in transcript order, at most one per teacher
\* line; each comes from a teacher line that matches a correction pattern and
\* whose immediately preceding line is a student line; both strings are
\* non-empty and `incorrect` is the text of that preceding student line. (So a
\* matching teacher line that does not follow a student line yields no pair.)
C9_PairFromPrecedingStudentLine ==
  /\ Len(ec_src) = Len(ec_corrections)
  /\ \A j \in 1..Len(ec_src) :
       LET i == ec_src[j]
       IN  /\ j > 1 => ec_src[j - 1] < i
           /\ IsTeacherLine(ec_lines[i])
           /\ Matching(TeacherText(ec_lines[i])) # {}
           /\ i > 1
           /\ IsStudentLine(ec_lines[i - 1])
           /\ ec_corrections[j][1] # <<>>
           /\ ec_corrections[j][2] # <<>>
           /\ ec_corrections[j][1] = StudentText(ec_lines[i - 1])

\* a finished run that recorded a pair and also met a matching teacher line
\* with no student line right before it
C9_Witness ==
  /\ ec_pc = "done"
  /\ Len(ec_corrections) >= 1
  /\ \E i \in 1..Len(ec_lines) :
       /\ IsTeacherLine(ec_lines[i])
       /\ Matching(TeacherText(ec_lines[i])) # {}
       /\ i = 1 \/ ~IsStudentLine(ec_lines[i - 1])
       /\ \A j \in 1..Len(ec_src) : ec_src[j] # i

\* C10: a student line followed by a teacher line announcing the correction,
\* with the corrected sentence quoted or unquoted, yields at least one mistake
\* for that pair, its correct sentence free of quotes.
C10_QuotedCorrectionDetected ==
  ec_pc = "done" =>
    \A i \in 2..Len(ec_lines) :
      ( /\ ec_lines[i - 1] = LN_StudentEats
        /\ ec_lines[i] \in {LN_Correction, LN_CorrectionQuoted, LN_TheCorrectQuoted} )
      => \E k \in 1..Len(ec_mistakes) :
           /\ ec_mistakes[k].incorrect = StudentText(LN_StudentEats)
           /\ Has(ec_mistakes[k].correct, <<"I", " ", "e", "a", "t">>)
           /\ "\"" \notin Range(ec_mistakes[k].correct)

\* C11: the correct side of a pair is the teacher's corrected sentence in full,
\* terminal punctuation included: it is never the sentence cut right before a
\* full stop, exclamation mark or question mark that ends it in the teacher
\* line (the student line "I eats." followed by "Correction: I eat." gives the
\* correct side "I eat.").
C11_CorrectSideInFull ==
  ec_pc = "done" =>
    \A j \in 1..Len(ec_corrections) :
      \A c \in {".", "!", "?"} :
        ~Contains(ec_lines[ec_src[j]], ec_corrections[j][2] \o <<c>>)

(***************************************************************************)
(* The pseudo-random source                                                *)
(***************************************************************************)
\* random.shuffle is a function of the generator's state: the state picks one
\* of the n! orders and moves on. NRng states are told apart, enough for every
\* order of a four-element list.
RECURSIVE Fact(_)
Fact(n) == IF n <= 1 THEN 1 ELSE n * Fact(n - 1)

NRng == Fact(4)

\* q without its k-th element
DropAt(q, k) == Sub(q, 1, k - 1) \o Sub(q, k + 1, Len(q))

\* the r-th order of q, r in 0..Len(q)!-1
RECURSIVE Arrange(_, _)
Arrange(q, r) ==
  IF Len(q) = 0 THEN <<>>
  ELSE LET f == Fact(Len(q) - 1)
           k == (r \div f) + 1
       IN  <<q[k]>> \o Arrange(DropAt(q, k), r % f)

\* random.shuffle(q) in generator state rng
ShuffleBy(q, rng) == Arrange(q, rng % Fact(Len(q)))

\* the generator state after one shuffle
RngNext(rng) == (rng + 1) % NRng

(***************************************************************************)
(* GeminiHelper._fallback_distractors                                      *)
(***************************************************************************)
\* distractor_pool, lines 60-115: <<word, its three distractors>>
DistractorPool == {
    <<<<"w","a","k","e">>, <<<<"w","a","k","e","s">>, <<"w","a","k","i","n","g">>, <<"w","o","k","e","n">>>>>>,
    <<<<"w","a","k","e"," ","u","p">>, <<<<"w","a","k","e","s"," ","u","p">>, <<"w","a","k","i","n","g"," ","u","p">>, <<"w","o","k","e"," ","u","p">>>>>>,
    <<<<"e","a","t">>, <<<<"e","a","t","s">>, <<"e","a","t","i","n","g">>, <<"e","a","t","e","n">>>>>>,
    <<<<"b","r","u","s","h">>, <<<<"b","r","u","s","h","e","s">>, <<"b","r","u","s","h","i","n","g">>, <<"b","r","u","s","h","e","d">>>>>>,
    <<<<"r","e","a","d">>, <<<<"r","e","a","d","s">>, <<"r","e","a","d","i","n","g">>, <<"r","e","a","d","e","d">>>>>>,
    <<<<"p","l","a","y">>, <<<<"p","l","a","y","s">>, <<"p","l","a","y","i","n","g">>, <<"p","l","a","y","e","d">>>>>>,
    <<<<"l","i","k","e">>, <<<<"l","i","k","e","s">>, <<"l","i","k","i","n","g">>, <<"l","i","k","e","d">>>>>>,
    <<<<"w","e","n","t">>, <<<<"g","o">>, <<"g","o","e","s">>, <<"g","o","n","e">>>>>>,
    <<<<"b","o","u","g","h","t">>, <<<<"b","u","y">>, <<"b","u","y","s">>, <<"b","u","y","e","d">>>>>>,
    <<<<"s","t","a","y","e","d">>, <<<<"s","t","a","y">>, <<"s","t","a","y","s">>, <<"s","t","a","y","i","n","g">>>>>>,
    <<<<"c","o","o","k","e","d">>, <<<<"c","o","o","k">>, <<"c","o","o","k","s">>, <<"c","o","o","k","i","n","g">>>>>>,
    <<<<"p","l","a","y","i","n","g">>, <<<<"p","l","a","y">>, <<"p","l","a","y","s">>, <<"p","l","a","y","e","d">>>>>>,
    <<<<"l","i","s","t","e","n","i","n","g">>, <<<<"l","i","s","t","e","n">>, <<"l","i","s","t","e","n","s">>, <<"l","i","s","t","e","n","e","d">>>>>>,
    <<<<"r","e","a","d","i","n","g">>, <<<<"r","e","a","d">>, <<"r","e","a","d","s">>, <<"r","e","a","d","e","d">>>>>>,
    <<<<"w","a","k","i","n","g">>, <<<<"w","a","k","e">>, <<"w","a","k","e","s">>, <<"w","o","k","e","n">>>>>>,
    <<<<"c","o","o","k","i","n","g">>, <<<<"c","o","o","k">>, <<"c","o","o","k","s">>, <<"c","o","o","k","e","d">>>>>>,
    <<<<"e","g","g","s">>, <<<<"e","g","g">>, <<"e","g","g","e","s">>, <<"a","n"," ","e","g","g">>>>>>,
    <<<<"t","e","e","t","h">>, <<<<"t","o","o","t","h">>, <<"t","e","e","t","h","s">>, <<"t","o","o","t","h","s">>>>>>,
    <<<<"v","e","g","e","t","a","b","l","e","s">>, <<<<"v","e","g","e","t","a","b","l","e">>, <<"v","e","g","i","t","a","b","l","e">>, <<"v","e","g","i","t","a","b","l","e","s">>>>>>,
    <<<<"d","a","y","s">>, <<<<"d","a","y">>, <<"d","a","i","e","s">>, <<"d","a","i","l","y">>>>>>,
    <<<<"p","e","o","p","l","e">>, <<<<"p","e","r","s","o","n">>, <<"p","e","o","p","l","e","s">>, <<"p","e","r","s","o","n","s">>>>>>,
    <<<<"b","o","o","k","s">>, <<<<"b","o","o","k">>, <<"b","o","o","k","e","s">>, <<"b","o","o","k","i","n","g">>>>>>,
    <<<<"f","r","u","i","t","s">>, <<<<"f","r","u","i","t">>, <<"f","r","u","i","t","e","s">>, <<"f","r","u","i","t","y">>>>>>,
    <<<<"a">>, <<<<"a","n">>, <<"t","h","e">>, <<"s","o","m","e">>>>>>,
    <<<<"a","n">>, <<<<"a">>, <<"t","h","e">>, <<"a","n","y">>>>>>,
    <<<<"t","h","e">>, <<<<"a">>, <<"a","n">>, <<"t","h","i","s">>>>>>,
    <<<<"t","o">>, <<<<"a","t">>, <<"i","n">>, <<"f","o","r">>>>>>,
    <<<<"a","t">>, <<<<"i","n">>, <<"o","n">>, <<"t","o">>>>>>,
    <<<<"i","n">>, <<<<"a","t">>, <<"o","n">>, <<"i","n","t","o">>>>>>,
    <<<<"f","o","r">>, <<<<"t","o">>, <<"a","t">>, <<"s","i","n","c","e">>>>>>,
    <<<<"w","i","t","h">>, <<<<"b","y">>, <<"f","r","o","m">>, <<"a","l","o","n","g">>>>>>,
    <<<<"c","o","m","f","o","r","t","a","b","l","e">>, <<<<"c","o","m","f","o","r","t">>, <<"c","o","m","f","o","r","t","a","b","l","y">>, <<"c","o","m","f","o","r","t","e","d">>>>>>,
    <<<<"s","o","m","e","t","i","m","e","s">>, <<<<"s","o","m","e","t","i","m","e">>, <<"s","o","m","e"," ","t","i","m","e">>, <<"a","l","w","a","y","s">>>>>>,
    <<<<"y","e","s","t","e","r","d","a","y">>, <<<<"t","o","m","o","r","r","o","w">>, <<"t","o","d","a","y">>, <<"l","a","s","t"," ","d","a","y">>>>>>,
    <<<<"m","o","r","n","i","n","g">>, <<<<"e","v","e","n","i","n","g">>, <<"a","f","t","e","r","n","o","o","n">>, <<"m","o","r","n","i","n","g","s">>>>>>,
    <<<<"f","i","v","e">>, <<<<"f","o","u","r">>, <<"f","i","v","e","s">>, <<"f","i","f","t","h">>>>>>,
    <<<<"t","h","r","e","e">>, <<<<"t","w","o">>, <<"t","h","i","r","d">>, <<"t","h","r","e","e","s">>>>>>
  }

\* semantic_groups, lines 149-154, in dictionary order
SemanticGroups == <<
    <<<<"a","l","w","a","y","s">>, <<"n","e","v","e","r">>, <<"o","f","t","e","n">>, <<"s","o","m","e","t","i","m","e","s">>, <<"u","s","u","a","l","l","y">>>>,
    <<<<"m","a","n","y">>, <<"f","e","w">>, <<"s","o","m","e">>, <<"a","l","l">>, <<"m","o","s","t">>>>,
    <<<<"g","o","o","d">>, <<"b","a","d">>, <<"n","i","c","e">>, <<"g","r","e","a","t">>, <<"f","i","n","e">>>>,
    <<<<"d","o">>, <<"m","a","k","e">>, <<"t","a","k","e">>, <<"g","e","t">>, <<"h","a","v","e">>>>
  >>

\* common_confusions, lines 164-165
CommonConfusions == <<<<"t","h","e","n">>, <<"t","h","a","n">>, <<"t","h","e","r","e">>, <<"t","h","e","i","r">>, <<"w","e","r","e">>, <<"w","h","e","r","e">>, <<"y","o","u","r">>, <<"y","o","u","'","r","e">>, <<"i","t","s">>, <<"i","t","'","s">>, <<"t","o">>, <<"t","o","o">>>>

\* s.endswith(p)
EndsWith(s, p) == Len(p) <= Len(s) /\ MatchAt(s, Len(s) - Len(p) + 1, p)

\* s[:-n] (n >= 1): s without its last n characters
DropLast(s, n) == Sub(s, 1, Len(s) - n)

\* q[:n]
Take(q, n) == Sub(q, 1, IF n < Len(q) THEN n ELSE Len(q))

\* [w for w in q if w != x]
Without(q, x) == SelectSeq(q, LAMBDA w : w # x)

\* lines 128-145: the suffix transforms
PatternDistractors(w) ==
  IF EndsWith(w, <<"e","d">>)
  THEN LET base == IF EndsWith(w, <<"i","e","d">>) THEN DropLast(w, 3) \o <<"y">>
                   ELSE DropLast(w, 2)
       IN  <<base, base \o <<"s">>, base \o <<"i","n","g">> >>
  ELSE IF EndsWith(w, <<"i","n","g">>)
  THEN LET base == IF EndsWith(w, <<"y","i","n","g">>) THEN DropLast(w, 4) \o <<"y">>
                   ELSE DropLast(w, 3)
       IN  <<base, base \o <<"s">>, base \o <<"e","d">> >>
  ELSE IF EndsWith(w, <<"s">>) /\ Len(w) > 3
  THEN LET base == IF EndsWith(w, <<"e","s">>) THEN DropLast(w, 2) ELSE DropLast(w, 1)
       IN  <<base, base \o <<"i","n","g">>, base \o <<"e","d">> >>
  ELSE IF EndsWith(w, <<"l","y">>)
  THEN LET base == DropLast(w, 2)
       IN  <<base, base \o <<"f","u","l">>, base \o <<"n","e","s","s">> >>
  ELSE <<>>

\* lines 148-160: the first semantic group that holds the word, without the word
SemanticDistractors(w, count) ==
  LET hit == {g \in 1..Len(SemanticGroups) : w \in Range(SemanticGroups[g])}
  IN  IF hit = {} THEN <<>>
      ELSE Take(Without(SemanticGroups[CHOOSE g \in hit : \A h \in hit : g <= h], w), count)

\* _fallback_distractors, lines 56-168, in generator state rng: the pool entry
\* is shuffled (lines 119-125), the generated lists are not
FallbackDistractorsBy(correct_word, count, rng) ==
  LET word_lower == Lower(correct_word)
      inPool     == {e \in DistractorPool : e[1] = word_lower}
  IN  IF inPool # {}
      THEN ShuffleBy(Take((CHOOSE e \in inPool : TRUE)[2], count), rng)
      ELSE LET g1 == PatternDistractors(word_lower)
               g2 == IF g1 = <<>> THEN SemanticDistractors(word_lower, count) ELSE g1
               g3 == IF g2 = <<>> THEN Take(Without(CommonConfusions, word_lower), count)
                     ELSE g2
           IN  Take(g3, count)

\* the lists it can return, over the states of the generator
FallbackDistractors(correct_word, count) ==
  {FallbackDistractorsBy(correct_word, count, rng) : rng \in 0..(Fact(count) - 1)}

(***************************************************************************)
(* FillInBlankGenerator._create_exercise                                   *)
(***************************************************************************)
BLANK == <<"_","_","_","_","_">>

\* whether position k of s holds a \w character (positions outside s do not)
IsW(s, k) == k >= 1 /\ k <= Len(s) /\ s[k] \in WordCh

\* \b between positions k-1 and k of s
Boundary(s, k) == IsW(s, k - 1) # IsW(s, k)

\* \b<target>\b with re.IGNORECASE matching at position k of s
WordMatchAt(s, k, t) ==
  /\ MatchAt(Lower(s), k, Lower(t))
  /\ Boundary(s, k)
  /\ Boundary(s, k + Len(t))

\* pattern.search: the positions where the target matches as a whole word
WordMatches(s, t) == {k \in 1..(Len(s) + 1) : WordMatchAt(s, k, t)}

\* pattern.sub('_____', sentence, count=1): the leftmost match replaced
BlankFirst(s, t) ==
  LET k == CHOOSE x \in WordMatches(s, t) : \A y \in WordMatches(s, t) : x <= y
  IN  Sub(s, 1, k - 1) \o BLANK \o Sub(s, k + Len(t), Len(s))

\* line 62: sentence.strip().strip('"')
CleanSentence(s) == StripSet(Strip(s), {"\""})

\* line 63: target_word.strip('.,!?"')
CleanTarget(w) == StripSet(w, PunctCh)

\* lines 81-82: '' appended until there are four options
Pad4(q) == q \o [k \in 1..(IF Len(q) < 4 THEN 4 - Len(q) ELSE 0) |-> <<>>]

\* options.index(x), 1-based
IndexOf(q, x) == CHOOSE k \in 1..Len(q) : q[k] = x /\ \A j \in 1..(k - 1) : q[j] # x

\* chr(65 + n) for n in 0..3 (and beyond)
LetterSeq == <<"A", "B", "C", "D", "E", "F", "G", "H">>

\* the exercise with the key taken before the shuffle: always the first letter
Exercise_KeyBeforeShuffle(blanked, options, target_word, context) ==
  [exercise_id    |-> <<"FB_", Len(blanked)>>,
   sentence       |-> blanked,
   option_a       |-> options[1],
   option_b       |-> options[2],
   option_c       |-> options[3],
   option_d       |-> options[4],
   correct_answer |-> "A",
   correct_word   |-> target_word,
   difficulty     |-> "beginner",
   context_type   |-> context]

\* lines 84-95: the exercise built from the blanked sentence and the shuffled,
\* padded options; exercise_id is 'FB_' and the decimal length of the sentence
Exercise(blanked, options, target_word, context) ==
  [exercise_id    |-> <<"FB_", Len(blanked)>>,
   sentence       |-> blanked,
   option_a       |-> options[1],
   option_b       |-> options[2],
   option_c       |-> options[3],
   option_d       |-> options[4],
   correct_answer |-> LetterSeq[IndexOf(options, target_word)],
   correct_word   |-> target_word,
   difficulty     |-> "beginner",
   context_type   |-> context]

\* stands for None
NoExercise == [sentence |-> <<>>, context_type |-> "none"]

\* _create_exercise, lines 58-95, with the generator in state rng_d at line 74
\* and in state rng_o at line 78
CreateExerciseBy(sentence0, target0, context, rng_d, rng_o) ==
  LET sentence    == CleanSentence(sentence0)
      target_word == CleanTarget(target0)
  IN  IF WordMatches(sentence, target_word) = {} THEN NoExercise
      ELSE Exercise(BlankFirst(sentence, target_word),
                    Pad4(ShuffleBy(<<target_word>> \o FallbackDistractorsBy(target_word, 3, rng_d),
                                   rng_o)),
                    target_word, context)

\* the values _create_exercise can return for one call
CreateExercise(sentence0, target0, context) ==
  {CreateExerciseBy(sentence0, target0, context, rng_d, rng_o) :
     rng_d \in 0..(Fact(3) - 1), rng_o \in 0..(NRng - 1)}

(***************************************************************************)
(* FillInBlankGenerator.generate: one candidate                            *)
(***************************************************************************)
\* the words candidate sentences are made of
FB_Words == {<<"g","o","o","d">>, <<"W","a","k","e">>, <<"w","a","k","e",".">>, <<"'","u","p","'">>, <<"_","_","_","_","_">>, <<"w","a","l","k","e","d">>,
             <<"E","d">>}

\* the longest candidate sentence, in words
MaxWords == 3

FB_Sentences == {Join(ws, <<" ">>) : ws \in SeqUpTo(FB_Words, MaxWords)}

\* str.isalpha()
IsAlpha(w) == Len(w) > 0 /\ \A k \in 1..Len(w) : w[k] \in UpperCh \cup LowerCh

\* the targets generate can pass with a sentence. From a mistake (lines 30-33)
\* the focus word: a stripped lower-cased token of the correct sentence, not
\* empty. From a practice sentence (lines 47-50): random.choice among the first
\* three alphabetic words longer than 3.
FB_Targets(sentence, context) ==
  IF context = "correction"
  THEN {StripSet(w, PunctCh) : w \in Range(SplitWS(Lower(sentence)))} \ {<<>>}
  ELSE Range(Take(SelectSeq(SplitWS(sentence), LAMBDA w : Len(w) > 3 /\ IsAlpha(w)), 3))

FB_Frame == UNCHANGED <<ec_vars, gq_vars, cz_vars, pl_vars, me_vars, sp_vars, fg_vars, qc_vars, bl_vars>>

FB_Init ==
  /\ BL_Idle
  /\ QC_Idle
  /\ FG_Idle
  /\ SP_Idle
  /\ ME_Idle
  /\ EC_Idle
  /\ GQ_Idle
  /\ CZ_Idle
  /\ PL_Idle
  /\ fb_sentence \in FB_Sentences
  /\ fb_context \in {"correction", "practice"}
  /\ fb_target \in FB_Targets(fb_sentence, fb_context)
  /\ fb_result = NoExercise
  /\ fb_pc = "call"

\* generate lines 34 / 51: the call of _create_exercise for the candidate
FB_Create ==
  /\ fb_pc = "call"
  /\ fb_result' \in CreateExercise(fb_sentence, fb_target, fb_context)
  /\ fb_pc' = "done"
  /\ UNCHANGED <<fb_sentence, fb_target, fb_context>>
  /\ FB_Frame

FB_Next == FB_Create

SpecFIB == FB_Init /\ [][FB_Next]_vars

(***************************************************************************)
(* Claims on fill-in-blank exercises                                       *)
(***************************************************************************)
FB_Produced == fb_pc = "done" /\ fb_result # NoExercise

FB_Options(ex) == <<ex.option_a, ex.option_b, ex.option_c, ex.option_d>>

\* C3: correct_word is one of option_a..option_d, and correct_answer is the
\* letter in {A,B,C,D} of an option that equals correct_word.
C3_CorrectWordIsKeyedOption ==
  FB_Produced =>
    /\ fb_result.correct_word \in Range(FB_Options(fb_result))
    /\ \E k \in 1..4 :
         /\ fb_result.correct_answer = LetterSeq[k]
         /\ FB_Options(fb_result)[k] = fb_result.correct_word

\* an exercise whose key is not the first option
C3_Witness == FB_Produced /\ fb_result.correct_answer = "C"

\* s.count(p): the non-overlapping occurrences of p in s
RECURSIVE CountOcc(_, _)
CountOcc(s, p) ==
  IF Len(s) < Len(p) THEN 0
  ELSE IF MatchAt(s, 1, p) THEN 1 + CountOcc(Sub(s, Len(p) + 1, Len(s)), p)
  ELSE CountOcc(Tail(s), p)

\* C4: the blank marker occurs exactly once in the exercise sentence: one
\* occurrence of the target word is replaced, the rest of the (cleaned) source
\* sentence is unchanged; and no exercise is produced when the target word does
\* not occur in the sentence.
C4_ExactlyOneBlank ==
  fb_pc = "done" =>
    LET src == CleanSentence(fb_sentence)
        t   == CleanTarget(fb_target)
    IN  /\ FB_Produced =>
             /\ CountOcc(fb_result.sentence, BLANK) = 1
             /\ \E k \in 1..Len(src) :
                  /\ MatchAt(Lower(src), k, Lower(t))
                  /\ fb_result.sentence =
                       Sub(src, 1, k - 1) \o BLANK \o Sub(src, k + Len(t), Len(src))
        /\ ~Contains(Lower(src), Lower(t)) => ~FB_Produced

(***************************************************************************)
(* GrammarQuestionGenerator                                                *)
(***************************************************************************)
GQ_BLANK == <<"_","_","_","_">>

\* re.sub(r'[^\w]', '', w).lower()
CleanWord(w) == Lower(SelectSeq(w, LAMBDA c : c \in WordCh))

\* q with its k-th element replaced by x
SetAt(q, k, x) == [j \in 1..Len(q) |-> IF j = k THEN x ELSE q[j]]

\* list(dict.fromkeys(q)): first occurrences, in order
RECURSIVE DedupeFrom(_, _)
DedupeFrom(q, seen) ==
  IF q = <<>> THEN <<>>
  ELSE IF Head(q) \in seen THEN DedupeFrom(Tail(q), seen)
  ELSE <<Head(q)>> \o DedupeFrom(Tail(q), seen \cup {Head(q)})

Dedupe(q) == DedupeFrom(q, {})

\* the least element of a set of positions, 0 when there is none
LeastOr0(S) == IF S = {} THEN 0 ELSE CHOOSE x \in S : \A y \in S : x <= y

\* lines 120-126: the first word that contains the focus word (0: none, or no
\* focus word)
FocusIdx(words, focus_word) ==
  IF focus_word = <<>> THEN 0
  ELSE LeastOr0({k \in 1..Len(words) : Contains(Lower(words[k]), Lower(focus_word))})

\* lines 133-135: the test for a verb, on the cleaned word
LooksLikeVerb(clean) ==
  \/ EndsWith(clean, <<"e","d">>)
  \/ EndsWith(clean, <<"i","n","g">>)
  \/ clean \in {<<"i","s">>, <<"a","r","e">>, <<"w","a","s">>, <<"w","e","r","e">>, <<"h","a","v","e">>, <<"h","a","s">>, <<"h","a","d">>}

\* lines 129-138: the first word that looks like a verb (0: none)
VerbIdx(words) == LeastOr0({k \in 1..Len(words) : LooksLikeVerb(CleanWord(words[k]))})

\* lines 140-147: the prompt with the word at blank_idx blanked; <<>> stands for None
PromptAt(words, blank_idx) ==
  IF blank_idx = 0 THEN <<>> ELSE Join(SetAt(words, blank_idx, GQ_BLANK), <<" ">>)

\* lines 120-138: the focus word if it is found, a verb otherwise
BlankIdx(byFocus, byVerb) == IF byFocus # 0 THEN byFocus ELSE byVerb

PromptOfWords(words, focus_word) ==
  PromptAt(words, BlankIdx(FocusIdx(words, focus_word), VerbIdx(words)))

\* _create_prompt_with_blank, lines 112-147
CreatePromptWithBlank(correct_sentence, focus_word) ==
  PromptOfWords(SplitWS(correct_sentence), focus_word)

\* lines 162-166: the first position at which the two word lists differ (0: none)
FirstDiff(inc_words, cor_words) ==
  LeastOr0({k \in 1..Len(inc_words) :
              k <= Len(cor_words) /\ Lower(inc_words[k]) # Lower(cor_words[k])})

\* lines 168-172: the first correct word that is no incorrect word (0: none)
FirstAdded(inc_words, cor_words) ==
  LeastOr0({k \in 1..Len(cor_words) :
              \A j \in 1..Len(inc_words) : Lower(cor_words[k]) # Lower(inc_words[j])})

\* lines 159-175: correct_word, given the first difference d
CorrectWordAt(inc_words, cor_words, d) ==
  IF d # 0 THEN cor_words[d]
  ELSE IF FirstAdded(inc_words, cor_words) # 0
       THEN cor_words[FirstAdded(inc_words, cor_words)]
  ELSE IF Len(cor_words) > 0 THEN cor_words[1]
  ELSE <<"c","o","r","r","e","c","t">>

\* lines 159-166: incorrect_word, given the first difference d; <<>> stands for
\* None (a token of split() is never empty)
IncorrectWordAt(inc_words, d) == IF d = 0 THEN <<>> ELSE inc_words[d]

CorrectWordIn(inc_words, cor_words) ==
  CorrectWordAt(inc_words, cor_words, FirstDiff(inc_words, cor_words))

\* the correct word _generate_options_from_mistake extracts from the pair
CorrectWordOf(incorrect, correct) == CorrectWordIn(SplitWS(incorrect), SplitWS(correct))

L_s   == <<"s">>
L_es  == <<"e","s">>
L_ed  == <<"e","d">>
L_ing == <<"i","n","g">>

Irregular == {
  <<<<"w","e","n","t">>, <<<<"g","o">>, <<"g","o","e","s">>, <<"g","o","i","n","g">>>>>>,
  <<<<"b","o","u","g","h","t">>, <<<<"b","u","y">>, <<"b","u","y","s">>, <<"b","u","y","i","n","g">>>>>>,
  <<<<"a","t","e">>, <<<<"e","a","t">>, <<"e","a","t","s">>, <<"e","a","t","i","n","g">>>>>>,
  <<<<"w","r","o","t","e">>, <<<<"w","r","i","t","e">>, <<"w","r","i","t","e","s">>, <<"w","r","i","t","i","n","g">>>>>>,
  <<<<"s","p","o","k","e">>, <<<<"s","p","e","a","k">>, <<"s","p","e","a","k","s">>, <<"s","p","e","a","k","i","n","g">>>>>> }

BeForms == <<<<"i","s">>, <<"a","r","e">>, <<"w","a","s">>, <<"w","e","r","e">>>>

Articles == <<<<"a">>, <<"a","n">>, <<"t","h","e">>, <<>>>>

CommonPreps == <<<<"i","n">>, <<"o","n">>, <<"a","t">>, <<"t","o">>, <<"f","o","r">>, <<"w","i","t","h">>, <<"b","y">>, <<"f","r","o","m">>>>

\* lines 202-257: the distractors for the cleaned correct word c, before
\* duplicates are removed; incorrect = <<>> stands for None
DistractorsFor(c, incorrect, error_type) ==
  IF Has(error_type, <<"p","a","s","t","_","t","e","n","s","e">>)
  THEN IF EndsWith(c, L_ed)
       THEN <<DropLast(c, 2), DropLast(c, 2) \o L_ing, DropLast(c, 2) \o L_s>>
       ELSE IF \E e \in Irregular : e[1] = c
       THEN (CHOOSE e \in Irregular : e[1] = c)[2]
       ELSE <<c \o L_s, c \o L_ing, <<"h","a","v","e"," ">> \o c>>
  ELSE IF Has(error_type, <<"v","e","r","b","_","t","e","n","s","e">>)
  THEN IF EndsWith(c, L_ing)
       THEN <<DropLast(c, 3), DropLast(c, 3) \o L_ed, DropLast(c, 3) \o L_s>>
       ELSE IF EndsWith(c, L_ed)
       THEN <<DropLast(c, 2), DropLast(c, 2) \o L_ing, DropLast(c, 2) \o L_s>>
       ELSE <<c \o L_ed, c \o L_ing, c \o L_s>>
  ELSE IF Has(error_type, <<"s","u","b","j","e","c","t","_","v","e","r","b">>) \/ Has(error_type, <<"a","g","r","e","e","m","e","n","t">>)
  THEN IF c \in Range(BeForms) THEN Without(BeForms, c)
       ELSE IF EndsWith(c, L_s)
       THEN <<DropLast(c, 1), DropLast(c, 1) \o L_es, DropLast(c, 1) \o L_ed>>
       ELSE <<c \o L_s, c \o L_es, c \o L_ed>>
  ELSE IF Has(error_type, <<"a","r","t","i","c","l","e">>)
  THEN IF c \in Range(Articles) THEN DropAt(Articles, IndexOf(Articles, c)) ELSE Articles
  ELSE IF Has(error_type, <<"p","r","e","p","o","s","i","t","i","o","n">>)
  THEN Take(Without(CommonPreps, c), 3)
  ELSE (IF incorrect # <<>> THEN <<CleanWord(incorrect)>> ELSE <<>>)
         \o <<c \o L_s, c \o L_ed, c \o L_ing>>

\* _generate_distractors_by_type, lines 196-263
DistractorsByType(correct, incorrect, error_type) ==
  Take(Dedupe(DistractorsFor(CleanWord(correct), incorrect, error_type)), 3)

\* lines 186-187: x appended until there are four options
PadWith(q, x) == q \o [k \in 1..(IF Len(q) < 4 THEN 4 - Len(q) ELSE 0) |-> x]

\* the key is the first option whatever the shuffle did
Keyed_FirstOption(options, correct_word) == <<options, 0>>

\* lines 189-194: the options with the index (0-based) of the correct word
Keyed(options, correct_word) == <<options, IndexOf(options, correct_word) - 1>>

\* lines 177-194, given the two differing words
OptionsFor(correct_word, incorrect_word, error_type, rng) ==
  Keyed(ShuffleBy(PadWith(<<correct_word>>
                            \o Take(DistractorsByType(correct_word, incorrect_word, error_type), 3),
                          correct_word \o L_s),
                  rng),
        correct_word)

OptionsAtDiff(inc_words, cor_words, d, error_type, rng) ==
  OptionsFor(CorrectWordAt(inc_words, cor_words, d), IncorrectWordAt(inc_words, d),
             error_type, rng)

OptionsOfWords(inc_words, cor_words, error_type, rng) ==
  OptionsAtDiff(inc_words, cor_words, FirstDiff(inc_words, cor_words), error_type, rng)

\* _generate_options_from_mistake, lines 149-194: <<options, correct_idx>>
OptionsFromMistake(incorrect, correct, error_type, rng) ==
  OptionsOfWords(SplitWS(incorrect), SplitWS(correct), error_type, rng)

\* _assess_difficulty, lines 281-291
AssessDifficulty(mistake) ==
  IF Has(mistake.error_type, <<"p","a","s","t","_","t","e","n","s","e">>) \/ Has(mistake.error_type, <<"a","r","t","i","c","l","e">>)
  THEN "easy"
  ELSE IF Has(mistake.error_type, <<"s","u","b","j","e","c","t","_","v","e","r","b">>) \/ Has(mistake.error_type, <<"p","r","e","p","o","s","i","t","i","o","n">>)
  THEN "medium"
  ELSE IF mistake.severity = "high" THEN "hard" ELSE "medium"

\* _create_question_from_mistake, lines 85-110, with the question record of
\* generate lines 62-74 (id, lesson_id and the explanation text are left out;
\* `origin` and `source` are history fields: where the question comes from and
\* the mistake it was made from). NoQuestion stands for None.
NoQuestion == [prompt |-> <<>>, origin |-> "none"]

QuestionWith(mistake, category_id, prompt, oc) ==
  [category_id   |-> category_id,
   difficulty    |-> AssessDifficulty(mistake),
   prompt        |-> prompt,
   options       |-> oc[1],
   correct_index |-> oc[2],
   origin        |-> "mistake",
   source        |-> mistake]

QuestionWithPrompt(mistake, category_id, prompt, rng) ==
  IF mistake.incorrect = <<>> \/ mistake.correct = <<>> \/ prompt = <<>>
  THEN NoQuestion
  ELSE QuestionWith(mistake, category_id, prompt,
         OptionsFromMistake(mistake.incorrect, mistake.correct, mistake.error_type, rng))

QuestionFromMistake(mistake, category_id, rng) ==
  QuestionWithPrompt(mistake, category_id,
    CreatePromptWithBlank(mistake.correct, mistake.focus_word), rng)

\* _generate_pattern_questions, lines 293-346
PatternTable(category_id) ==
  LET tense == <<
        [prompt |-> <<"Y","e","s","t","e","r","d","a","y",","," ","I"," ","_","_","_","_"," ","t","o"," ","t","h","e"," ","s","t","o","r","e",".">>,
         options |-> <<<<"g","o">>, <<"w","e","n","t">>, <<"g","o","i","n","g">>, <<"g","o","n","e">>>>,
         correct_index |-> 1, difficulty |-> "easy"],
        [prompt |-> <<"S","h","e"," ","_","_","_","_"," ","w","o","r","k","i","n","g"," ","h","e","r","e"," ","f","o","r"," ","f","i","v","e"," ","y","e","a","r","s",".">>,
         options |-> <<<<"i","s">>, <<"h","a","s"," ","b","e","e","n">>, <<"w","a","s">>, <<"w","i","l","l"," ","b","e">>>>,
         correct_index |-> 1, difficulty |-> "medium"] >>
      agreement == <<
        [prompt |-> <<"T","h","e"," ","t","e","a","m"," ","_","_","_","_"," ","r","e","a","d","y"," ","f","o","r"," ","t","h","e"," ","m","a","t","c","h",".">>,
         options |-> <<<<"i","s">>, <<"a","r","e">>, <<"w","e","r","e">>, <<"b","e">>>>,
         correct_index |-> 0, difficulty |-> "medium"] >>
      articles == <<
        [prompt |-> <<"I"," ","n","e","e","d"," ","_","_","_","_"," ","u","m","b","r","e","l","l","a"," ","b","e","c","a","u","s","e"," ","i","t"," ","i","s"," ","r","a","i","n","i","n","g",".">>,
         options |-> <<<<"a">>, <<"a","n">>, <<"t","h","e">>, <<>>>>,
         correct_index |-> 1, difficulty |-> "easy"] >>
  IN  CASE category_id = "tense"     -> tense
        [] category_id = "agreement" -> agreement
        [] category_id = "articles"  -> articles
        [] OTHER                     -> tense

PatternQuestions(category_id) ==
  LET t == Take(PatternTable(category_id), 2)
  IN  [k \in 1..Len(t) |->
         [category_id   |-> category_id,
          difficulty    |-> t[k].difficulty,
          prompt        |-> t[k].prompt,
          options       |-> t[k].options,
          correct_index |-> t[k].correct_index,
          origin        |-> "pattern",
          source        |-> <<>>]]

\* __init__, lines 13-14
min_questions == 2
max_questions == 4

\* generate line 46: the grammar mistakes
GrammarMistakes(mistakes) == SelectSeq(mistakes, LAMBDA x : Has(x.error_type, L_grammar))

(***************************************************************************)
(* GrammarQuestionGenerator.generate as a state machine                    *)
(***************************************************************************)
\* (incorrect, correct) pairs; the mistakes given to generate are what
\* MistakeExtractor makes of them
GQ_P_VerbTense == <<<<"I"," ","w","a","k","i","n","g"," ","u","p">>, <<"I"," ","w","a","k","e"," ","u","p">>>>
GQ_P_PastTense == <<<<"Y","e","s","t","e","r","d","a","y"," ","I"," ","g","o">>, <<"Y","e","s","t","e","r","d","a","y"," ","I"," ","w","e","n","t",".">>>>
GQ_P_Agreement == <<<<"I"," ","e","a","t","s">>, <<"I"," ","e","a","t">>>>
GQ_P_Article == <<<<"H","e"," ","i","s"," ","t","e","a","c","h","e","r">>, <<"H","e"," ","i","s"," ","a"," ","t","e","a","c","h","e","r">>>>
GQ_P_WordForm == <<<<"I","t"," ","w","a","s"," ","c","o","m","f","o","r","t">>, <<"I","t"," ","w","a","s"," ","c","o","m","f","o","r","t","a","b","l","e">>>>
GQ_P_Preposition == <<<<"I"," ","l","i","k","e"," ","p","l","a","y"," ","f","o","o","t","b","a","l","l">>, <<"I"," ","l","i","k","e"," ","p","l","a","y","i","n","g"," ","f","o","o","t","b","a","l","l">>>>
GQ_P_General == <<<<"S","h","e"," ","g","o"," ","h","o","m","e">>, <<"S","h","e"," ","g","o","e","s"," ","h","o","m","e">>>>
GQ_P_NoVerb == <<<<"T","w","o"," ","c","a","t">>, <<"T","w","o"," ","c","a","t","s">>>>

GQ_P_Contained == <<<<"T","h","a","t"," ","i","s"," ","c","a","t">>, <<"T","h","a","t"," ","i","s"," ","a"," ","c","a","t">>>>
GQ_P_FullStop == <<<<"I"," ","l","i","k","e"," ","r","i","c","e",".">>, <<"I"," ","l","i","k","e"," ","r","i","c","e">>>>
GQ_P_Comma == <<<<"H","e","l","l","o",","," ","I"," ","a","m"," ","f","i","n","e">>, <<"H","e","l","l","o",","," ","I"," ","a","m"," ","w","e","l","l">>>>

GQ_Pairs == {GQ_P_VerbTense, GQ_P_PastTense, GQ_P_Agreement, GQ_P_Article, GQ_P_WordForm, GQ_P_Preposition, GQ_P_General, GQ_P_NoVerb, GQ_P_Contained, GQ_P_FullStop, GQ_P_Comma}

\* the longest list of mistakes
MaxMistakes == 2

GQ_MistakeLists ==
  {[k \in 1..Len(ps) |-> MistakeOf(ps[k])] : ps \in SeqUpTo(GQ_Pairs, MaxMistakes)}

GQ_Categories == {"tense", "agreement", "articles", "prepositions"}

GQ_Frame == UNCHANGED <<ec_vars, fb_vars, cz_vars, pl_vars, me_vars, sp_vars, fg_vars, qc_vars, bl_vars>>

GQ_Init ==
  /\ BL_Idle
  /\ QC_Idle
  /\ FG_Idle
  /\ SP_Idle
  /\ ME_Idle
  /\ EC_Idle
  /\ FB_Idle
  /\ CZ_Idle
  /\ PL_Idle
  /\ gq_mistakes \in GQ_MistakeLists
  /\ gq_category \in GQ_Categories
  /\ gq_i = 1
  /\ gq_questions = <<>>
  /\ gq_seen = {}
  /\ gq_rng \in 0..(NRng - 1)
  /\ gq_pc = "loop"

\* lines 48-50: the loop goes on while there are grammar mistakes left and
\* fewer than max_questions questions
GQ_More ==
  /\ gq_i <= Len(GrammarMistakes(gq_mistakes))
  /\ Len(gq_questions) < max_questions

\* lines 52-76, the rest of an iteration once the question q is made: nothing
\* for None; nothing but the shuffle for a prompt seen before; otherwise append
GQ_Take(q) ==
  /\ gq_questions' =
       IF q = NoQuestion \/ Lower(q.prompt) \in gq_seen
       THEN gq_questions ELSE Append(gq_questions, q)
  /\ gq_seen' = IF q = NoQuestion THEN gq_seen ELSE gq_seen \cup {Lower(q.prompt)}
  /\ gq_rng' = IF q = NoQuestion THEN gq_rng ELSE RngNext(gq_rng)

\* lines 48-76: one iteration of the loop over grammar_mistakes
GQ_Iterate ==
  /\ gq_pc = "loop"
  /\ GQ_More
  /\ \E q \in {QuestionFromMistake(GrammarMistakes(gq_mistakes)[gq_i], gq_category, gq_rng)} :
       GQ_Take(q)
  /\ gq_i' = gq_i + 1
  /\ UNCHANGED <<gq_mistakes, gq_category, gq_pc>>
  /\ GQ_Frame

\* lines 78-83 with enough questions: return
GQ_Return ==
  /\ gq_pc = "loop"
  /\ ~GQ_More
  /\ Len(gq_questions) >= min_questions
  /\ gq_pc' = "done"
  /\ UNCHANGED <<gq_mistakes, gq_category, gq_i, gq_questions, gq_seen, gq_rng>>
  /\ GQ_Frame

\* lines 78-83 with too few questions: pattern questions fill up, then return
GQ_FillFromPatterns ==
  /\ gq_pc = "loop"
  /\ ~GQ_More
  /\ Len(gq_questions) < min_questions
  /\ gq_questions' = gq_questions \o
       Take(PatternQuestions(gq_category), min_questions - Len(gq_questions))
  /\ gq_pc' = "done"
  /\ UNCHANGED <<gq_mistakes, gq_category, gq_i, gq_seen, gq_rng>>
  /\ GQ_Frame

GQ_Next ==
  \/ GQ_Iterate
  \/ GQ_Return
  \/ GQ_FillFromPatterns

SpecGQ == GQ_Init /\ [][GQ_Next]_vars

\* C5: every question returned by generate has exactly four options and an
\* index 0 <= correct_index < 4; for a question made from a mistake the option
\* at correct_index is the correct word extracted from the mistake's
\* (incorrect, correct) pair.
C5_FourOptionsKeyedToCorrectWord ==
  gq_pc = "done" =>
    \A k \in 1..Len(gq_questions) :
      LET q == gq_questions[k]
      IN  /\ Len(q.options) = 4
          /\ q.correct_index \in 0..3
          /\ q.origin = "mistake" =>
               q.options[q.correct_index + 1] =
                 CorrectWordOf(q.source.incorrect, q.source.correct)

\* a returned question made from a mistake whose correct word is not the first option
C5_Witness ==
  /\ gq_pc = "done"
  /\ \E k \in 1..Len(gq_questions) :
       /\ gq_questions[k].origin = "mistake"
       /\ gq_questions[k].correct_index = 2

(***************************************************************************)
(* AdvancedClozeGenerator                                                  *)
(***************************************************************************)
\* __init__, lines 15-16
min_items == 2
max_items == 4

\* __init__, lines 26-31
SkipWords == {
  <<"t","h","e">>, <<"a">>, <<"a","n">>, <<"i","s">>, <<"a","r","e">>, <<"w","a","s">>,
  <<"w","e","r","e">>, <<"b","e">>, <<"b","e","e","n">>, <<"h","a","v","e">>, <<"h","a","s">>, <<"h","a","d">>,
  <<"d","o">>, <<"d","o","e","s">>, <<"d","i","d">>, <<"w","i","l","l">>, <<"w","o","u","l","d">>, <<"c","a","n">>,
  <<"c","o","u","l","d">>, <<"s","h","o","u","l","d">>, <<"m","a","y">>, <<"m","i","g","h","t">>, <<"m","u","s","t">>, <<"i">>,
  <<"y","o","u">>, <<"h","e">>, <<"s","h","e">>, <<"i","t">>, <<"w","e">>, <<"t","h","e","y">>,
  <<"t","h","i","s">>, <<"t","h","a","t">>, <<"t","h","e","s","e">>, <<"t","h","o","s","e">> }

SP == <<" ">>

\* lines 250-251
Generic == <<
  <<"c","o","m","p","l","e","t","e">>,
  <<"c","o","n","s","i","d","e","r">>,
  <<"c","o","n","t","i","n","u","e">>,
  <<"d","e","v","e","l","o","p">>,
  <<"e","s","t","a","b","l","i","s","h">>,
  <<"m","a","i","n","t","a","i","n">>,
  <<"p","r","o","v","i","d","e">>,
  <<"r","e","q","u","i","r","e">>,
  <<"s","u","p","p","o","r","t">>,
  <<"u","n","d","e","r","s","t","a","n","d">> >>

\* lines 236-242
Confusables == {
  <<<<"a","f","f","e","c","t">>, <<<<"e","f","f","e","c","t">>, <<"i","n","f","e","c","t">>, <<"d","e","f","e","c","t">>>>>>,
  <<<<"a","c","c","e","p","t">>, <<<<"e","x","c","e","p","t">>, <<"e","x","p","e","c","t">>, <<"a","d","a","p","t">>>>>>,
  <<<<"a","d","v","i","c","e">>, <<<<"a","d","v","i","s","e">>, <<"d","e","v","i","c","e">>, <<"d","e","v","i","s","e">>>>>>,
  <<<<"c","o","m","p","l","e","m","e","n","t">>, <<<<"c","o","m","p","l","i","m","e","n","t">>, <<"i","m","p","l","e","m","e","n","t">>, <<"s","u","p","p","l","e","m","e","n","t">>>>>>,
  <<<<"p","r","i","n","c","i","p","a","l">>, <<<<"p","r","i","n","c","i","p","l","e">>, <<"p","r","a","c","t","i","c","a","l">>, <<"e","s","s","e","n","t","i","a","l">>>>>> }

\* lines 225-233: the similar forms of a word of six letters or more
Phonetic(c) ==
  IF Len(c) < 6 THEN <<>>
  ELSE IF EndsWith(c, L_ing) THEN <<DropLast(c, 3) \o L_ed, DropLast(c, 3) \o <<"i","o","n">>>>
  ELSE IF EndsWith(c, L_ed) THEN <<DropLast(c, 2) \o L_ing>>
  ELSE IF EndsWith(c, <<"t","i","o","n">>) THEN <<DropLast(c, 4) \o <<"t","e">>>>
  ELSE <<>>

\* lines 244-245
ConfusablesOf(c) ==
  IF \E e \in Confusables : e[1] = c
  THEN Take((CHOOSE e \in Confusables : e[1] = c)[2], 2)
  ELSE <<>>

\* lines 252-256: one pass over the generic words, adding to the set d (kept
\* here in insertion order) until it holds three
RECURSIVE FillGeneric(_, _, _)
FillGeneric(d, gs, c) ==
  IF Len(d) >= 3 \/ gs = <<>> THEN d
  ELSE IF Head(gs) # c /\ Len(Head(gs)) >= Len(c) - 2 /\ Head(gs) \notin Range(d)
  THEN FillGeneric(Append(d, Head(gs)), Tail(gs), c)
  ELSE FillGeneric(d, Tail(gs), c)

\* lines 222-256: the distractors after one pass of the while loop
ClozeDistractors(c) == FillGeneric(Dedupe(Phonetic(c) \o ConfusablesOf(c)), Generic, c)

\* lines 248-256: a pass that leaves fewer than three distractors is repeated
\* with the same outcome for ever
NeverEnds(c) == Len(ClozeDistractors(c)) < 3

\* lines 258-262: the clean word and three distractors, shuffled (the order in
\* which list(set) gives the distractors is one more arbitrary order)
ClozeOptionsFor(c, rng) == ShuffleBy(<<c>> \o Take(ClozeDistractors(c), 3), rng)

\* _generate_distractors, lines 217-262
GenerateDistractors(correct_word, rng) == ClozeOptionsFor(CleanWord(correct_word), rng)

\* vocab_words, line 199
VocabWords(vocabulary) == {Lower(vocabulary[k].word) : k \in 1..Len(vocabulary)}

\* lines 202-213: is the word with this clean form a key word
IsKeyWord(word, clean, vocab_words) ==
  /\ clean \notin SkipWords
  /\ Len(clean) >= 4
  /\ \/ clean \in vocab_words
     \/ Len(clean) >= 6 /\ word[1] \notin UpperCh

\* _identify_key_word_indices, lines 196-215: the positions (1-based), in order
IdentifyKeyWordIndices(words, vocab_words) ==
  SelectSeq([k \in 1..Len(words) |-> k],
            LAMBDA k : IsKeyWord(words[k], CleanWord(words[k]), vocab_words))

\* lines 149-150: the text before a blank
PartBefore(before) == IF before = <<>> THEN <<>> ELSE before \o SP

\* lines 157-158: the text after the last blank
PartAfter(remaining) == IF remaining = <<>> THEN <<>> ELSE SP \o remaining

\* the parts without the text after the last blank
TextParts_NoRemainder(words, key) ==
  [j \in 1..Len(key) |->
     PartBefore(Join(Sub(words, (IF j = 1 THEN 0 ELSE key[j - 1]) + 1, key[j] - 1), SP))]

\* lines 143-158: text_parts for the blanks at the positions key
TextParts(words, key) ==
  [j \in 1..(Len(key) + 1) |->
     IF j <= Len(key)
     THEN PartBefore(Join(Sub(words, (IF j = 1 THEN 0 ELSE key[j - 1]) + 1, key[j] - 1), SP))
     ELSE PartAfter(Join(Sub(words, key[Len(key)] + 1, Len(words)), SP))]

\* lines 152-153
CorrectOf(words, key) == [j \in 1..Len(key) |-> words[key[j]]]

\* lines 161-164: one call of _generate_distractors, hence one shuffle, per blank
OptionsOf(correct, rng) ==
  [j \in 1..Len(correct) |-> GenerateDistractors(correct[j], (rng + j - 1) % NRng)]

\* sum(len(w) for w in q)
RECURSIVE SumLen(_)
SumLen(q) == IF q = <<>> THEN 0 ELSE Len(Head(q)) + SumLen(Tail(q))

\* _assess_difficulty, lines 264-274 (the average compared without a division)
ClozeDifficulty(word_count, correct) ==
  IF Len(correct) >= 3 \/ SumLen(correct) >= 8 * Len(correct) THEN "hard"
  ELSE IF word_count >= 15 \/ SumLen(correct) >= 6 * Len(correct) THEN "medium"
  ELSE "easy"

\* the item of generate lines 70-79 (id, topic_id, lesson_id and the explanation
\* text are left out; `path` and `sentence` are history fields)
ClozeItem(text_parts, options, correct, difficulty, path, sentence) ==
  [text_parts |-> text_parts,
   options    |-> options,
   correct    |-> correct,
   difficulty |-> difficulty,
   path       |-> path,
   sentence   |-> sentence]

MultiItemOf(sentence, words, key, correct, rng) ==
  ClozeItem(TextParts(words, key), OptionsOf(correct, rng), correct,
            ClozeDifficulty(Len(words), correct), "multi", sentence)

\* _create_multi_blank_cloze, lines 129-169, for the two or three positions key
MultiItem(sentence, words, key, rng) ==
  MultiItemOf(sentence, words, key, CorrectOf(words, key), rng)

\* lines 176-180: the first word good for a single blank (0: none)
SingleIdx(words) ==
  LeastOr0({k \in 1..Len(words) :
              /\ Len(CleanWord(words[k])) > 4
              /\ CleanWord(words[k]) \notin SkipWords
              /\ words[k][1] \notin UpperCh})

\* lines 183-186
SingleParts(words, i) ==
  <<Join(Sub(words, 1, i - 1), SP) \o SP, SP \o Join(Sub(words, i + 1, Len(words)), SP)>>

\* _create_single_blank_cloze, lines 171-194, for the word at position i, with
\* the item of generate lines 95-104
SingleItem(sentence, words, i, rng) ==
  ClozeItem(SingleParts(words, i), <<GenerateDistractors(CleanWord(words[i]), rng)>>,
            <<CleanWord(words[i])>>, "easy", "single", sentence)

\* lines 117-125: is the text good for a cloze, given its number of words
IsQuality(text, word_count) ==
  /\ word_count >= 8
  /\ word_count <= 30
  /\ \/ \E p \in {<<"s","h","o","u","l","d">>, <<"m","u","s","t">>, <<"n","e","e","d"," ","t","o">>, <<"h","a","v","e"," ","t","o">>} :
          Contains(Lower(text), p)
     \/ word_count >= 12

\* _filter_quality_sentences, lines 109-127
FilterQualitySentences(sentences) ==
  SelectSeq(sentences, LAMBDA sent : IsQuality(sent.text, Len(SplitWS(sent.text))))

(***************************************************************************)
(* AdvancedClozeGenerator.generate as a state machine                      *)
(***************************************************************************)
\* two key words, written as they are cleaned
CZ_S_TwoKeys == <<"w","e"," ","s","h","o","u","l","d"," ","g","o"," ","t","o"," ","m","y"," ","o","l","d"," ","j","o","b"," ","w","a","l","k","i","n","g"," ","q","u","i","c","k","l","y">>
\* a key word with a comma attached
CZ_S_Punctuated == <<"w","e"," ","s","h","o","u","l","d"," ","g","o"," ","t","o"," ","m","y"," ","o","l","d"," ","j","o","b"," ","e","v","e","r","y"," ","m","o","r","n","i","n","g",","," ","w","a","l","k","i","n","g">>
\* a capitalised vocabulary word and four more key words
CZ_S_ManyKeys == <<"P","r","a","c","t","i","c","e"," ","s","h","o","u","l","d"," ","m","a","k","e"," ","m","y"," ","o","l","d"," ","j","o","b"," ","b","e","t","t","e","r"," ","w","a","l","k","i","n","g"," ","q","u","i","c","k","l","y"," ","r","u","n","n","i","n","g">>
\* no key word, one word good for a single blank
CZ_S_SingleOnly == <<"w","e"," ","s","h","o","u","l","d"," ","g","o"," ","t","o"," ","m","y"," ","o","l","d"," ","j","o","b"," ","a","t"," ","n","i","g","h","t",".">>
\* no word to blank
CZ_S_NoBlank == <<"w","e"," ","s","h","o","u","l","d"," ","g","o"," ","t","o"," ","m","y"," ","o","l","d"," ","j","o","b"," ","a","t"," ","a","l","l">>
\* too short for a cloze
CZ_S_Short == <<"w","e"," ","g","o"," ","w","a","l","k","i","n","g"," ","q","u","i","c","k","l","y">>
\* an 11-letter word without a similar form
CZ_S_LongWord == <<"w","e"," ","s","h","o","u","l","d"," ","g","o"," ","t","o"," ","m","y"," ","o","l","d"," ","j","o","b"," ","a","n","d"," ","b","e"," ","c","o","m","f","o","r","t","a","b","l","e">>
\* the same word next to another key word
CZ_S_LongWordKey == <<"w","e"," ","s","h","o","u","l","d"," ","g","o"," ","t","o"," ","m","y"," ","o","l","d"," ","j","o","b"," ","w","a","l","k","i","n","g"," ","c","o","m","f","o","r","t","a","b","l","e">>
\* twelve words, none of the modal words
CZ_S_Long == <<"w","e"," ","g","o"," ","t","o"," ","m","y"," ","o","l","d"," ","j","o","b"," ","a","t"," ","t","e","n"," ","a","n","d"," ","w","e"," ","l","i","k","e"," ","w","a","l","k","i","n","g"," ","q","u","i","c","k","l","y">>
\* two confusable words
CZ_S_Confusable == <<"w","e"," ","s","h","o","u","l","d"," ","g","o"," ","t","o"," ","m","y"," ","o","l","d"," ","j","o","b"," ","a","n","d"," ","a","c","c","e","p","t"," ","a","d","v","i","c","e">>

CZ_Texts == {CZ_S_LongWordKey, CZ_S_TwoKeys, CZ_S_Punctuated, CZ_S_ManyKeys, CZ_S_SingleOnly, CZ_S_NoBlank, CZ_S_Short, CZ_S_LongWord, CZ_S_Long, CZ_S_Confusable}

\* the longest list of sentences
MaxSentences == 2

CZ_SentenceLists ==
  {[k \in 1..Len(ts) |-> [text |-> ts[k]]] : ts \in SeqUpTo(CZ_Texts, MaxSentences)}

CZ_Vocabularies == {<<>>, <<[word |-> <<"P","r","a","c","t","i","c","e">>]>>}

CZ_Frame == UNCHANGED <<ec_vars, fb_vars, gq_vars, pl_vars, me_vars, sp_vars, fg_vars, qc_vars, bl_vars>>

CZ_Init ==
  /\ BL_Idle
  /\ QC_Idle
  /\ FG_Idle
  /\ SP_Idle
  /\ ME_Idle
  /\ EC_Idle
  /\ FB_Idle
  /\ GQ_Idle
  /\ PL_Idle
  /\ cz_sentences \in CZ_SentenceLists
  /\ cz_vocab \in CZ_Vocabularies
  /\ cz_quality = <<>>
  /\ cz_i = 1
  /\ cz_items = <<>>
  /\ cz_seen = {}
  /\ cz_rng \in 0..(NRng - 1)
  /\ cz_pc = "filter"

\* line 51
CZ_Filter ==
  /\ cz_pc = "filter"
  /\ cz_quality' = FilterQualitySentences(cz_sentences)
  /\ cz_pc' = "main"
  /\ UNCHANGED <<cz_sentences, cz_vocab, cz_i, cz_items, cz_seen, cz_rng>>
  /\ CZ_Frame

\* lines 53-55: the first loop goes on
CZ_MainMore ==
  /\ cz_i <= Len(cz_quality)
  /\ Len(cz_items) < max_items

\* lines 57-62 and 136-140: the positions to blank in this iteration; none when
\* the sentence is skipped or has fewer than two key words
CZ_KeyOf(sentence, words) ==
  IF sentence = <<>> \/ Lower(sentence) \in cz_seen THEN <<>>
  ELSE Take(IdentifyKeyWordIndices(words, VocabWords(cz_vocab)), 3)

\* lines 53-81: one iteration of the first loop, for the positions key
CZ_MainWith(sentence, words, key) ==
  /\ \A j \in 1..Len(key) : Len(key) >= 2 => ~NeverEnds(CleanWord(words[key[j]]))
  /\ cz_items' = IF Len(key) < 2 THEN cz_items
                 ELSE Append(cz_items, MultiItem(sentence, words, key, cz_rng))
  /\ cz_seen' = IF Len(key) < 2 THEN cz_seen ELSE cz_seen \cup {Lower(sentence)}
  /\ cz_rng' = IF Len(key) < 2 THEN cz_rng ELSE (cz_rng + Len(key)) % NRng

CZ_MainIterate ==
  /\ cz_pc = "main"
  /\ CZ_MainMore
  /\ \E sentence \in {cz_quality[cz_i].text} :
       \E words \in {SplitWS(sentence)} :
         \E key \in {CZ_KeyOf(sentence, words)} :
           CZ_MainWith(sentence, words, key)
  /\ cz_i' = cz_i + 1
  /\ UNCHANGED <<cz_sentences, cz_vocab, cz_quality, cz_pc>>
  /\ CZ_Frame

\* lines 147-164 in an iteration of the first loop: _generate_distractors does
\* not return for one of the blanked words
CZ_MainHang ==
  /\ cz_pc = "main"
  /\ CZ_MainMore
  /\ \E sentence \in {cz_quality[cz_i].text} :
       \E words \in {SplitWS(sentence)} :
         \E key \in {CZ_KeyOf(sentence, words)} :
           /\ Len(key) >= 2
           /\ \E j \in 1..Len(key) : NeverEnds(CleanWord(words[key[j]]))
  /\ cz_pc' = "hang"
  /\ UNCHANGED <<cz_sentences, cz_vocab, cz_quality, cz_i, cz_items, cz_seen, cz_rng>>
  /\ CZ_Frame

\* line 84: the second loop is entered
CZ_Relax ==
  /\ cz_pc = "main"
  /\ ~CZ_MainMore
  /\ Len(cz_items) < min_items /\ Len(cz_quality) > 0
  /\ cz_pc' = "relaxed"
  /\ cz_i' = 1
  /\ UNCHANGED <<cz_sentences, cz_vocab, cz_quality, cz_items, cz_seen, cz_rng>>
  /\ CZ_Frame

\* lines 86-88: the second loop goes on
CZ_RelaxedMore ==
  /\ cz_i <= Len(cz_quality)
  /\ cz_i <= 5
  /\ Len(cz_items) < min_items

\* lines 89-91 and 176-180: the word to blank in this iteration (0: none)
CZ_SingleOf(sentence, words) ==
  IF Lower(sentence) \in cz_seen THEN 0 ELSE SingleIdx(words)

\* lines 86-105: one iteration of the second loop, for the word at position i
CZ_RelaxedWith(sentence, words, i) ==
  /\ i # 0 => ~NeverEnds(CleanWord(words[i]))
  /\ cz_items' = IF i = 0 THEN cz_items
                 ELSE Append(cz_items, SingleItem(sentence, words, i, cz_rng))
  /\ cz_seen' = IF i = 0 THEN cz_seen ELSE cz_seen \cup {Lower(sentence)}
  /\ cz_rng' = IF i = 0 THEN cz_rng ELSE RngNext(cz_rng)

CZ_RelaxedIterate ==
  /\ cz_pc = "relaxed"
  /\ CZ_RelaxedMore
  /\ \E sentence \in {cz_quality[cz_i].text} :
       \E words \in {SplitWS(sentence)} :
         \E i \in {CZ_SingleOf(sentence, words)} :
           CZ_RelaxedWith(sentence, words, i)
  /\ cz_i' = cz_i + 1
  /\ UNCHANGED <<cz_sentences, cz_vocab, cz_quality, cz_pc>>
  /\ CZ_Frame

\* line 189 in an iteration of the second loop: _generate_distractors does not
\* return
CZ_RelaxedHang ==
  /\ cz_pc = "relaxed"
  /\ CZ_RelaxedMore
  /\ \E sentence \in {cz_quality[cz_i].text} :
       \E words \in {SplitWS(sentence)} :
         \E i \in {CZ_SingleOf(sentence, words)} :
           i # 0 /\ NeverEnds(CleanWord(words[i]))
  /\ cz_pc' = "hang"
  /\ UNCHANGED <<cz_sentences, cz_vocab, cz_quality, cz_i, cz_items, cz_seen, cz_rng>>
  /\ CZ_Frame

\* line 107, reached past the second loop or without it
CZ_Return ==
  /\ \/ cz_pc = "main" /\ ~CZ_MainMore /\ ~(Len(cz_items) < min_items /\ Len(cz_quality) > 0)
     \/ cz_pc = "relaxed" /\ ~CZ_RelaxedMore
  /\ cz_pc' = "done"
  /\ UNCHANGED <<cz_sentences, cz_vocab, cz_quality, cz_i, cz_items, cz_seen, cz_rng>>
  /\ CZ_Frame

CZ_Next ==
  \/ CZ_Filter
  \/ CZ_MainIterate
  \/ CZ_MainHang
  \/ CZ_Relax
  \/ CZ_RelaxedIterate
  \/ CZ_RelaxedHang
  \/ CZ_Return

SpecCloze == CZ_Init /\ [][CZ_Next]_vars

\* C6: every cloze item generate produces, on the multi-blank and on the
\* single-blank path, has one more text part than correct answers, one option
\* list per correct answer, and between one and three correct answers.
C6_ClozeShape ==
  cz_pc # Idle =>
    \A k \in 1..Len(cz_items) :
      /\ Len(cz_items[k].text_parts) = Len(cz_items[k].correct) + 1
      /\ Len(cz_items[k].options) = Len(cz_items[k].correct)
      /\ Len(cz_items[k].correct) \in 1..3

\* generate has returned a three-blank item cut from more than three key words
\* together with a single-blank item
C6_Witness ==
  /\ cz_pc = "done"
  /\ \E k \in 1..Len(cz_items) :
       /\ cz_items[k].path = "multi"
       /\ cz_items[k].sentence = CZ_S_ManyKeys
       /\ Len(cz_items[k].correct) = 3
  /\ \E k \in 1..Len(cz_items) : cz_items[k].path = "single"

\* C7: for every blank i of every cloze item, correct[i] is one of options[i],
\* whatever the capitalisation or attached punctuation of the blanked word.
C7_CorrectAmongOptions ==
  cz_pc # Idle =>
    \A k \in 1..Len(cz_items) :
      \A i \in 1..Len(cz_items[k].correct) :
        cz_items[k].correct[i] \in Range(cz_items[k].options[i])

(***************************************************************************)
(* TextProcessor: utterances, lesson topic, key vocabulary                 *)
(***************************************************************************)
\* the positions of a set in ascending order
RECURSIVE Ascending(_)
Ascending(S) ==
  IF S = {} THEN <<>>
  ELSE <<LeastOr0(S)>> \o Ascending(S \ {LeastOr0(S)})

\* the concatenation of a sequence of sequences
RECURSIVE Flatten(_)
Flatten(qs) == IF Len(qs) = 0 THEN <<>> ELSE Head(qs) \o Flatten(Tail(qs))

\* s.strip() for each s of q
StripAll(q) == [k \in 1..Len(q) |-> Strip(q[k])]

\* l.replace(marker, "").strip() for each line l of ls
WithoutMarker(ls, marker) == [k \in 1..Len(ls) |-> Strip(RemoveAll(ls[k], marker))]

\* extract_teacher_utterances / extract_student_utterances, lines 63-78: the
\* lines of transcript.split("\n") that start with the marker
ExtractTeacherUtterances(transcript) ==
  WithoutMarker(SelectSeq(SplitOn(transcript, NL), LAMBDA l : MatchAt(l, 1, L_Teacher)), L_Teacher)

ExtractStudentUtterances(transcript) ==
  WithoutMarker(SelectSeq(SplitOn(transcript, NL), LAMBDA l : MatchAt(l, 1, L_Student)), L_Student)

\* extract_corrections as one value: the pairs of every line, in order
ExtractCorrectionsOf(lines) == Flatten([i \in 1..Len(lines) |-> CorrectionOfLine(lines, i)])

ExtractCorrections(transcript) == ExtractCorrectionsOf(SplitLines(transcript))

\* identify_lesson_topic lines 88-94 and vocabulary_extractor lines 62-68: the
\* topics in dictionary order, with their keywords and their important words
Topics == <<
  [name |-> "daily_routines", category |-> "topic_daily_routines",
   keywords |-> <<<<"r","o","u","t","i","n","e">>, <<"w","a","k","e"," ","u","p">>, <<"m","o","r","n","i","n","g">>, <<"b","r","e","a","k","f","a","s","t">>, <<"t","e","e","t","h">>>>,
   vocab |-> <<<<"w","a","k","e">>, <<"b","r","e","a","k","f","a","s","t">>, <<"b","r","u","s","h">>, <<"m","o","r","n","i","n","g">>>>],
  [name |-> "hobbies", category |-> "topic_hobbies",
   keywords |-> <<<<"h","o","b","b","i","e","s">>, <<"f","r","e","e"," ","t","i","m","e">>, <<"f","o","o","t","b","a","l","l">>, <<"m","u","s","i","c">>>>,
   vocab |-> <<<<"f","o","o","t","b","a","l","l">>, <<"m","u","s","i","c">>, <<"b","o","o","k","s">>, <<"t","i","m","e">>>>],
  [name |-> "family", category |-> "topic_family",
   keywords |-> <<<<"f","a","m","i","l","y">>, <<"f","a","t","h","e","r">>, <<"m","o","t","h","e","r">>>>,
   vocab |-> <<<<"f","a","t","h","e","r">>, <<"m","o","t","h","e","r">>, <<"e","n","g","i","n","e","e","r">>, <<"t","e","a","c","h","e","r">>>>],
  [name |-> "past_tense", category |-> "topic_past_tense",
   keywords |-> <<<<"y","e","s","t","e","r","d","a","y">>, <<"d","i","d"," ","y","o","u">>, <<"d","e","s","c","r","i","b","e"," ","y","e","s","t","e","r","d","a","y">>, <<"w","h","a","t"," ","d","i","d">>>>,
   vocab |-> <<<<"y","e","s","t","e","r","d","a","y">>, <<"b","o","u","g","h","t">>, <<"w","e","n","t">>, <<"c","o","o","k","e","d">>>>],
  [name |-> "travel", category |-> "topic_travel",
   keywords |-> <<<<"t","r","a","v","e","l">>, <<"c","i","t","y">>, <<"h","o","t","e","l">>, <<"s","t","a","y","e","d">>, <<"v","i","s","i","t","e","d">>>>,
   vocab |-> <<<<"h","o","t","e","l">>, <<"c","o","m","f","o","r","t","a","b","l","e">>, <<"s","t","a","y","e","d">>, <<"D","e","l","h","i">>>>] >>

\* line 95: sum(k in first for k in kws)
TopicScore(first, kws) == Cardinality({k \in 1..Len(kws) : Contains(first, kws[k])})

\* line 96: the first topic with the highest score, 0 ("general") when every
\* score is 0
BestTopic(first) ==
  LeastOr0({t \in 1..Len(Topics) :
              /\ TopicScore(first, Topics[t].keywords) > 0
              /\ \A u \in 1..Len(Topics) :
                   TopicScore(first, Topics[u].keywords) <= TopicScore(first, Topics[t].keywords)})

\* identify_lesson_topic, lines 82-96: an index into Topics, 0 for "general"
TopicOfUtterances(teachers) ==
  IF Len(teachers) = 0 THEN 0 ELSE BestTopic(Lower(teachers[1]))

IdentifyLessonTopic(transcript) == TopicOfUtterances(ExtractTeacherUtterances(transcript))

\* extract_key_vocabulary lines 102-109
StopWords == {
  <<"i">>, <<"y","o","u">>, <<"h","e">>, <<"s","h","e">>, <<"i","t">>, <<"w","e">>, <<"t","h","e","y">>, <<"a","m">>, <<"i","s">>, <<"a","r","e">>, <<"w","a","s">>, <<"w","e","r","e">>, <<"b","e">>, <<"b","e","e","n">>,
  <<"b","e","i","n","g">>, <<"h","a","v","e">>, <<"h","a","s">>, <<"h","a","d">>, <<"a">>, <<"a","n">>, <<"t","h","e">>, <<"a","n","d">>, <<"o","r">>, <<"b","u","t">>, <<"i","f">>, <<"b","e","c","a","u","s","e">>, <<"a","s">>,
  <<"u","n","t","i","l">>, <<"w","h","i","l","e">>, <<"t","o">>, <<"i","n">>, <<"o","n">>, <<"a","t">>, <<"f","o","r">>, <<"w","i","t","h">>, <<"b","y">>, <<"f","r","o","m">>, <<"o","f">>, <<"a","b","o","u","t">>, <<"m","y">>,
  <<"y","o","u","r">>, <<"h","i","s">>, <<"h","e","r">>, <<"i","t","s">>, <<"o","u","r">>, <<"t","h","e","i","r">>, <<"w","h","a","t">>, <<"w","h","e","n">>, <<"w","h","e","r","e">>, <<"w","h","y">>, <<"h","o","w">>, <<"w","h","i","c","h">>,
  <<"w","h","o">>, <<"w","h","o","m">>, <<"t","h","i","s">>, <<"t","h","a","t">>, <<"t","h","e","s","e">>, <<"t","h","o","s","e">>, <<"a","l","s","o">>, <<"v","e","r","y">>, <<"t","h","e","n">>, <<"n","i","c","e">>, <<"g","o","o","d">>,
  <<"t","r","y">>, <<"w","e","l","l">>, <<"c","a","n">>, <<"c","o","u","l","d">>, <<"w","i","l","l">>, <<"w","o","u","l","d">>, <<"s","h","o","u","l","d">>, <<"m","a","y">>, <<"m","i","g","h","t">>, <<"m","u","s","t">> }

\* re.findall(r"\b[a-zA-Z]+\b", s), from the start positions: the maximal runs of
\* letters that have no \w character on either side
LetterRunsAt(s, starts) ==
  [k \in 1..Len(starts) |-> Sub(s, starts[k], SkipSet(s, starts[k], UpperCh \cup LowerCh) - 1)]

FindWords(s) ==
  LetterRunsAt(s, Ascending({k \in 1..Len(s) :
                               /\ s[k] \in UpperCh \cup LowerCh
                               /\ ~IsW(s, k - 1)
                               /\ ~IsW(s, SkipSet(s, k, UpperCh \cup LowerCh))}))

\* re.search of \b<first>(?:<suffix>)?\s+(?:<middle>\s+)?<last>\b in s; an empty
\* suffix or middle stands for a pattern without that optional part
PhraseIn(s, first, suffix, middle, last) ==
  \E k \in 1..Len(s) :
    /\ Boundary(s, k)
    /\ MatchAt(s, k, first)
    /\ \E a \in {k + Len(first)}
                \cup (IF MatchAt(s, k + Len(first), suffix)
                      THEN {k + Len(first) + Len(suffix)} ELSE {}) :
         \E b \in {SkipSet(s, a, SpaceCh)} :
           /\ b > a
           /\ \E c \in {b} \cup (IF /\ Len(middle) > 0
                                    /\ MatchAt(s, b, middle)
                                    /\ SkipSet(s, b + Len(middle), SpaceCh) > b + Len(middle)
                                 THEN {SkipSet(s, b + Len(middle), SpaceCh)} ELSE {}) :
                /\ MatchAt(s, c, last)
                /\ Boundary(s, c + Len(last))

\* lines 116-127: the first words of the key phrases found in the sentence
\* ("wake up" -> "wake"), in dictionary order
PhraseHeads(s) ==
  (IF PhraseIn(s, <<"w","a","k","e">>, <<>>, <<>>, <<"u","p">>) THEN <<<<"w","a","k","e">>>> ELSE <<>>)
    \o (IF PhraseIn(s, <<"b","r","u","s","h">>, <<"i","n","g">>, <<"m","y">>, <<"t","e","e","t","h">>) THEN <<<<"b","r","u","s","h">>>> ELSE <<>>)
    \o (IF PhraseIn(s, <<"f","r","e","e">>, <<>>, <<>>, <<"t","i","m","e">>) THEN <<<<"f","r","e","e">>>> ELSE <<>>)
    \o (IF PhraseIn(s, <<"l","a","s","t">>, <<>>, <<>>, <<"y","e","a","r">>) THEN <<<<"l","a","s","t">>>> ELSE <<>>)

\* extract_key_vocabulary, lines 100-135
ExtractKeyVocabulary(sentence) ==
  Take(Dedupe(SelectSeq(FindWords(Lower(sentence)), LAMBDA w : w \notin StopWords /\ Len(w) > 2)
                \o PhraseHeads(Lower(sentence))), 5)

(***************************************************************************)
(* VocabularyExtractor.extract                                             *)
(***************************************************************************)
\* the words of the items of a vocabulary list, lower-cased: the local `seen`
SeenWords(vocabulary) == {Lower(vocabulary[k].word) : k \in 1..Len(vocabulary)}

\* the candidates appended without a look at `seen`
AppendUnseen_All(vocabulary, items) == vocabulary \o items

\* the candidates appended in order, each unless its lower-cased word is in `seen`
RECURSIVE AppendUnseen(_, _)
AppendUnseen(vocabulary, items) ==
  IF Len(items) = 0 THEN vocabulary
  ELSE IF Lower(Head(items).word) \in SeenWords(vocabulary)
  THEN AppendUnseen(vocabulary, Tail(items))
  ELSE AppendUnseen(Append(vocabulary, Head(items)), Tail(items))

VocabItem(word, context, category, priority) ==
  [word |-> word, context |-> context, category |-> category, priority |-> priority]

\* line 27: word.split()[0] if ' ' in word else word
FirstWord(word) == IF Contains(word, <<" ">>) THEN SplitWS(word)[1] ELSE word

\* lines 23-35: the candidates of the corrections, the key words of each correct
\* sentence
ItemsOfWords(words, correct) ==
  [k \in 1..Len(words) |-> VocabItem(FirstWord(words[k]), correct, "corrected_usage", "high")]

CorrectionItems(corrections) ==
  Flatten([k \in 1..Len(corrections) |->
             ItemsOfWords(ExtractKeyVocabulary(corrections[k][2]), corrections[k][2])])

\* lines 40-43: re.search(r'(?:important|key|vocabulary|words?):\s*([^.]+)',
\* line, re.IGNORECASE).group(1), <<>> when there is no match. c is the position
\* after the colon of a keyword; the group starts after the white space that
\* follows, or on the last white space character when a period or the end of
\* the line comes next, and runs up to the next period.
VocabGroupStart(line, c) ==
  LET e == SkipSet(line, c, SpaceCh)
  IN  IF e <= Len(line) /\ line[e] # "." THEN e
      ELSE IF e > c THEN e - 1
      ELSE 0

VocabWordsStr(line) ==
  LET colons == {c \in 2..(Len(line) + 1) :
                   \E w \in {<<"i","m","p","o","r","t","a","n","t">>, <<"k","e","y">>, <<"v","o","c","a","b","u","l","a","r","y">>, <<"w","o","r","d">>, <<"w","o","r","d","s">>} :
                     MatchAt(Lower(line), c - Len(w) - 1, w \o <<":">>)}
      g      == VocabGroupStart(line, LeastOr0({c \in colons : VocabGroupStart(line, c) > 0}))
  IN  IF {c \in colons : VocabGroupStart(line, c) > 0} = {} THEN <<>>
      ELSE Sub(line, g, SkipSet(line, g, AllCh \ {"."}) - 1)

\* line 45: re.split(r',|\band\b', s)
RECURSIVE SplitCommaAnd(_)
SplitCommaAnd(s) ==
  LET k == LeastOr0({j \in 1..Len(s) :
                       \/ s[j] = ","
                       \/ MatchAt(s, j, <<"a","n","d">>) /\ Boundary(s, j) /\ Boundary(s, j + 3)})
  IN  IF k = 0 THEN <<s>>
      ELSE <<Sub(s, 1, k - 1)>>
             \o SplitCommaAnd(Sub(s, k + (IF s[k] = "," THEN 1 ELSE 3), Len(s)))

\* lines 38-55: the candidates of the teacher lines that announce vocabulary
ExplicitItemsOf(line) ==
  LET words == SelectSeq(StripAll(SplitCommaAnd(VocabWordsStr(line))), LAMBDA w : Len(w) > 2)
  IN  IF VocabWordsStr(line) = <<>> THEN <<>>
      ELSE [k \in 1..Len(words) |-> VocabItem(words[k], line, "explicit_vocabulary", "high")]

ExplicitItems(teacher_lines) ==
  Flatten([k \in 1..Len(teacher_lines) |-> ExplicitItemsOf(teacher_lines[k])])

\* lines 74-78: the first line that contains the word, "" when there is none
ContextOf(word, lines) ==
  LET hit == LeastOr0({k \in 1..Len(lines) : Contains(Lower(lines[k]), Lower(word))})
  IN  IF hit = 0 THEN <<>> ELSE lines[hit]

\* lines 70-87: the candidates of the lesson topic, the words that have a context
TopicItems(topic, lines) ==
  IF topic = 0 THEN <<>>
  ELSE SelectSeq([k \in 1..Len(Topics[topic].vocab) |->
                    VocabItem(Topics[topic].vocab[k], ContextOf(Topics[topic].vocab[k], lines),
                              Topics[topic].category, "medium")],
                 LAMBDA item : item.context # <<>>)

\* extract, lines 16-89
VocabularyFrom(corrections, teacher_lines, student_lines) ==
  AppendUnseen(AppendUnseen(AppendUnseen(<<>>, CorrectionItems(corrections)),
                            ExplicitItems(teacher_lines)),
               TopicItems(TopicOfUtterances(teacher_lines), teacher_lines \o student_lines))

VocabularyExtract(transcript) ==
  VocabularyFrom(ExtractCorrections(transcript), ExtractTeacherUtterances(transcript),
                 ExtractStudentUtterances(transcript))

(***************************************************************************)
(* SentenceExtractor.extract                                               *)
(***************************************************************************)
SentenceItem(sentence, source, quality_score) ==
  [sentence |-> sentence, source |-> source, quality_score |-> quality_score,
   difficulty |-> "beginner"]

\* the local `seen` of extract: the sentences appended so far
SeenSentences(sentences) == {sentences[k].sentence : k \in 1..Len(sentences)}

\* the candidate texts appended in order with the given source, each unless it
\* is in `seen`
RECURSIVE AppendNew(_, _, _, _)
AppendNew(sentences, texts, source, quality_score) ==
  IF Len(texts) = 0 THEN sentences
  ELSE IF Head(texts) \in SeenSentences(sentences)
  THEN AppendNew(sentences, Tail(texts), source, quality_score)
  ELSE AppendNew(Append(sentences, SentenceItem(Head(texts), source, quality_score)),
                 Tail(texts), source, quality_score)

\* ["']([^"']+)["'] anchored at the first character after the white space that
\* starts at k: group(1), <<>> when it does not match
QuotedAt(s, k) ==
  LET q == SkipSet(s, k, SpaceCh)
      e == SkipSet(s, q + 1, AllCh \ {"\"", "'"})
  IN  IF q <= Len(s) /\ s[q] \in {"\"", "'"} /\ e > q + 1 /\ e <= Len(s)
      THEN Sub(s, q + 1, e - 1)
      ELSE <<>>

\* ([^.]+)\.?$ after the white space that starts at k: the rest of the line when
\* it holds no period but a last one; the group takes the last white space
\* character when nothing else is left for it
ToEndAt(s, k) ==
  LET e0 == SkipSet(s, k, SpaceCh)
      g  == IF e0 <= Len(s) /\ s[e0] # "." THEN e0 ELSE IF e0 > k THEN e0 - 1 ELSE 0
      e  == SkipSet(s, g, AllCh \ {"."})
  IN  IF g > 0 /\ (e > Len(s) \/ e = Len(s)) THEN Sub(s, g, e - 1) ELSE <<>>

\* the position after "[Cc]orrect(?:ion)?" matched at p, 0 when it does not match
AfterCorrect(s, p) ==
  IF s[p] \in {"C", "c"} /\ MatchAt(s, p + 1, L_orrect)
  THEN SkipLit(s, p + 7, L_ion)
  ELSE 0

\* lines 45-53, re.search(patterns[n], line): group(1) of pattern n matched with
\* its first character at p, <<>> when it does not match there
\*   1  [Cc]orrect(?:ion)?[:]?\s*["']([^"']+)["']
\*   2  [Cc]orrect(?:ion)?:\s*([^.]+)\.?$
\*   3  The correct sentence is\s*["']([^"']+)["']
\*   4  [Bb]etter:\s*["']([^"']+)["']
StandaloneAt(n, s, p) ==
  CASE n = 1 -> IF AfterCorrect(s, p) = 0 THEN <<>>
                ELSE QuotedAt(s, SkipLit(s, AfterCorrect(s, p), <<":">>))
    [] n = 2 -> IF AfterCorrect(s, p) = 0 \/ ~MatchAt(s, AfterCorrect(s, p), <<":">>) THEN <<>>
                ELSE ToEndAt(s, AfterCorrect(s, p) + 1)
    [] n = 3 -> IF MatchAt(s, p, L_TheCorrect) THEN QuotedAt(s, p + Len(L_TheCorrect)) ELSE <<>>
    [] OTHER -> IF s[p] \in {"B", "b"} /\ MatchAt(s, p + 1, L_etter \o <<":">>)
                THEN QuotedAt(s, p + 7) ELSE <<>>

\* group(1) of the leftmost match of pattern n in the line, <<>> when none
StandaloneSearch(n, s) ==
  LET p == LeastOr0({k \in 1..Len(s) : StandaloneAt(n, s, k) # <<>>})
  IN  IF p = 0 THEN <<>> ELSE StandaloneAt(n, s, p)

\* lines 52-64: what the first matching pattern gives for a teacher line,
\* stripped; none when no pattern matches or the text is empty
StandaloneOf(line) ==
  LET n == LeastOr0({k \in 1..4 : StandaloneSearch(k, line) # <<>>})
  IN  IF n = 0 \/ Strip(StandaloneSearch(n, line)) = <<>> THEN <<>>
      ELSE <<Strip(StandaloneSearch(n, line))>>

\* line 87: the verb indicators, looked up as substrings
VerbIndicators == {<<"i","s">>, <<"a","r","e">>, <<"w","a","s">>, <<"w","e","r","e">>, <<"d","o">>, <<"d","o","e","s">>, <<"d","i","d">>, <<"h","a","v","e">>, <<"h","a","s">>,
                   <<"h","a","d">>, <<"w","i","l","l">>, <<"c","a","n">>, <<"c","o","u","l","d">>, <<"s","h","o","u","l","d">>}

\* re.split(r'[.!?]+', s): s cut at the maximal runs of . ! ?
RECURSIVE SplitSentences(_)
SplitSentences(s) ==
  LET k == LeastOr0({j \in 1..Len(s) : s[j] \in EndCh})
  IN  IF k = 0 THEN <<s>>
      ELSE <<Sub(s, 1, k - 1)>> \o SplitSentences(Sub(s, SkipSet(s, k, EndCh), Len(s)))

\* lines 83-87: the pieces of the transcript kept by the fallback
FallbackTexts(transcript) ==
  SelectSeq(StripAll(SplitSentences(transcript)),
            LAMBDA sent : /\ 10 <= Len(sent)
                          /\ Len(sent) <= 150
                          /\ \E w \in VerbIndicators : Contains(Lower(sent), w))

\* lines 28-77: the labelled sentences
LabelledSentences(corrections, teacher_lines, student_lines) ==
  AppendNew(
    AppendNew(
      AppendNew(<<>>, [k \in 1..Len(corrections) |-> corrections[k][2]], "correction", 10),
      Flatten([k \in 1..Len(teacher_lines) |-> StandaloneOf(teacher_lines[k])]),
      "correction", 10),
    SelectSeq(student_lines,
              LAMBDA line : \A k \in 1..Len(corrections) : corrections[k][1] # line),
    "student_correct", 8)

\* lines 79-99: the fallback runs when nothing labelled was found and stops at 10
\* sentences
SentencesOr(labelled, transcript) ==
  IF Len(labelled) > 0 THEN labelled
  ELSE Take(AppendNew(<<>>, FallbackTexts(transcript), "unlabeled_transcript", 6), 10)

\* extract, lines 17-99, with Gemini disabled (gemini_helper.enabled is False)
SentenceExtract(transcript) ==
  SentencesOr(LabelledSentences(ExtractCorrections(transcript),
                                ExtractTeacherUtterances(transcript),
                                ExtractStudentUtterances(transcript)),
              transcript)

(***************************************************************************)
(* FillInBlankGenerator.generate                                           *)
(***************************************************************************)
\* random.choice(q) in generator state rng
ChoiceBy(q, rng) == q[(rng % Len(q)) + 1]

\* the generator state after n draws
RECURSIVE RngAfter(_, _)
RngAfter(rng, n) == IF n = 0 THEN rng ELSE RngAfter(RngNext(rng), n - 1)

\* lines 47-48: [w for w in sentence.split() if len(w) > 3 and w.isalpha()]
MeaningfulWords(sentence) == SelectSeq(SplitWS(sentence), LAMBDA w : Len(w) > 3 /\ IsAlpha(w))

\* lines 35-37 / 52-54: the locals `exercises` and `used_sentences` after one
\* call of _create_exercise; the generator has moved on
FibAdd(acc, sentence, exercise) ==
  IF exercise = NoExercise THEN [acc EXCEPT !.rng = RngAfter(acc.rng, 3)]
  ELSE [exercises |-> Append(acc.exercises, exercise),
        used      |-> acc.used \cup {sentence},
        rng       |-> RngAfter(acc.rng, 3)]

\* the loop over the mistakes without the look at `used_sentences`
RECURSIVE FibFromMistakes_Unchecked(_, _, _)
FibFromMistakes_Unchecked(acc, mistakes, max) ==
  IF Len(mistakes) = 0 \/ Len(acc.exercises) >= max THEN acc
  ELSE IF Head(mistakes).focus_word # <<>>
  THEN FibFromMistakes_Unchecked(
         FibAdd(acc, Head(mistakes).correct,
                CreateExerciseBy(Head(mistakes).correct, Head(mistakes).focus_word, "correction",
                                 RngAfter(acc.rng, 1), RngAfter(acc.rng, 2))),
         Tail(mistakes), max)
  ELSE FibFromMistakes_Unchecked(acc, Tail(mistakes), max)

\* lines 26-37: the loop over the mistakes
RECURSIVE FibFromMistakes(_, _, _)
FibFromMistakes(acc, mistakes, max) ==
  IF Len(mistakes) = 0 \/ Len(acc.exercises) >= max THEN acc
  ELSE IF Head(mistakes).correct \notin acc.used /\ Head(mistakes).focus_word # <<>>
  THEN FibFromMistakes(
         FibAdd(acc, Head(mistakes).correct,
                CreateExerciseBy(Head(mistakes).correct, Head(mistakes).focus_word, "correction",
                                 RngAfter(acc.rng, 1), RngAfter(acc.rng, 2))),
         Tail(mistakes), max)
  ELSE FibFromMistakes(acc, Tail(mistakes), max)

\* lines 40-54: the loop over the sentences; the target is random.choice among
\* the first three meaningful words
RECURSIVE FibFromSentences(_, _, _)
FibFromSentences(acc, sentences, max) ==
  IF Len(sentences) = 0 \/ Len(acc.exercises) >= max THEN acc
  ELSE IF /\ Head(sentences).sentence \notin acc.used
          /\ Len(MeaningfulWords(Head(sentences).sentence)) > 0
  THEN FibFromSentences(
         FibAdd(acc, Head(sentences).sentence,
                CreateExerciseBy(Head(sentences).sentence,
                                 ChoiceBy(Take(MeaningfulWords(Head(sentences).sentence), 3), acc.rng),
                                 "practice", RngAfter(acc.rng, 1), RngAfter(acc.rng, 2))),
         Tail(sentences), max)
  ELSE FibFromSentences(acc, Tail(sentences), max)

\* generate, lines 19-56, with max_exercises = max and the generator in state rng
FibGenerate(mistakes, sentences, max, rng) ==
  FibFromSentences(
    FibFromMistakes([exercises |-> <<>>, used |-> {}, rng |-> rng], Take(mistakes, max), max),
    sentences, max).exercises

(***************************************************************************)
(* FlashcardGenerator.generate                                             *)
(***************************************************************************)
\* line 18
SimpleWords == {<<"v","e","r","y">>, <<"g","o","o","d">>, <<"n","i","c","e">>, <<"b","a","d">>, <<"f","i","n","e">>}

\* gemini_helper.py lines 174-195: the phrases translate_phrase has an entry for
Translated == {<<"w","a","k","e"," ","u","p">>, <<"b","r","e","a","k","f","a","s","t">>, <<"b","r","e","a","d">>, <<"e","g","g","s">>, <<"t","e","e","t","h">>, <<"f","o","o","t","b","a","l","l">>, <<"m","u","s","i","c">>,
               <<"b","o","o","k","s">>, <<"f","a","m","i","l","y">>, <<"f","a","t","h","e","r">>, <<"m","o","t","h","e","r">>, <<"e","n","g","i","n","e","e","r">>, <<"t","e","a","c","h","e","r">>, <<"m","a","r","k","e","t">>,
               <<"v","e","g","e","t","a","b","l","e","s">>, <<"f","r","u","i","t","s">>, <<"y","e","s","t","e","r","d","a","y">>, <<"h","o","t","e","l">>, <<"c","o","m","f","o","r","t","a","b","l","e">>, <<"s","o","m","e","t","i","m","e","s">>}

\* translate_phrase, lines 170-198: the entry of the phrase (its Hindi text is
\* written as the mark "hi:" before the entry's key), else the phrase in brackets
TranslatePhrase(phrase) ==
  IF Lower(phrase) \in Translated THEN <<"hi:">> \o Lower(phrase)
  ELSE <<"[">> \o phrase \o <<"]">>

\* lines 56-60 of _extract_short_example: a sentence cut to 150 characters
CutLong(sent) == IF Len(sent) > 150 THEN Take(sent, 147) \o <<".",".",".">> ELSE sent

\* _extract_short_example, lines 45-65 (the same code in spelling.py, lines 67-86),
\* given the pieces re.split(r'[.!?]+', context)
ShortExampleOf(word, context, pieces) ==
  LET hit == LeastOr0({k \in 1..Len(pieces) :
                         /\ Contains(Lower(pieces[k]), Lower(word))
                         /\ Len(Strip(pieces[k])) > 10})
  IN  IF hit > 0 THEN CutLong(Strip(pieces[hit]))
      ELSE IF Len(context) > 150 THEN Strip(Take(context, 147)) \o <<".",".",".">>
      ELSE Strip(context)

ExtractShortExample(word, context) == ShortExampleOf(word, context, SplitSentences(context))

\* lines 21-22: sorted() is stable, the high priority items first
SortByPriority(vocabulary) ==
  SelectSeq(vocabulary, LAMBDA x : x.priority = "high")
    \o SelectSeq(vocabulary, LAMBDA x : x.priority # "high")

\* lines 35-41
Flashcard(item) ==
  [word             |-> item.word,
   translation      |-> TranslatePhrase(item.word),
   example_sentence |-> ExtractShortExample(item.word, item.context),
   category         |-> item.category,
   difficulty       |-> "beginner"]

\* lines 24-42: the loop over the sorted vocabulary; `seen` holds the lower-cased
\* words of the cards
RECURSIVE FlashcardsFrom(_, _, _)
FlashcardsFrom(flashcards, items, max) ==
  IF Len(items) = 0 \/ Len(flashcards) >= max THEN flashcards
  ELSE IF \/ Lower(Head(items).word) \in SimpleWords
          \/ Lower(Head(items).word) \in SeenWords(flashcards)
  THEN FlashcardsFrom(flashcards, Tail(items), max)
  ELSE FlashcardsFrom(Append(flashcards, Flashcard(Head(items))), Tail(items), max)

\* generate, lines 15-43, with max_cards = max
FlashcardGenerate(vocabulary, max) == FlashcardsFrom(<<>>, SortByPriority(vocabulary), max)

(***************************************************************************)
(* SpellingGenerator.generate                                              *)
(***************************************************************************)
\* lines 32-35
Challenging == {<<"c","o","m","f","o","r","t","a","b","l","e">>, <<"v","e","g","e","t","a","b","l","e","s">>, <<"b","r","e","a","k","f","a","s","t">>, <<"y","e","s","t","e","r","d","a","y">>, <<"e","n","g","i","n","e","e","r">>,
                <<"s","o","m","e","t","i","m","e","s">>, <<"l","i","s","t","e","n","i","n","g">>, <<"b","o","u","g","h","t">>, <<"s","t","a","y","e","d">>}

SpellingWord(word, context, difficulty, source) ==
  [word |-> word, sample_sentence |-> ExtractShortExample(word, context),
   difficulty |-> difficulty, source |-> source]

\* lines 18-29: the words of the mistakes; this loop has no limit
RECURSIVE SpellingFromMistakes(_, _)
SpellingFromMistakes(words, mistakes) ==
  IF Len(mistakes) = 0 THEN words
  ELSE IF /\ Len(Head(mistakes).focus_word) > 2
          /\ Lower(Head(mistakes).focus_word) \notin SeenWords(words)
  THEN SpellingFromMistakes(
         Append(words, SpellingWord(Head(mistakes).focus_word, Head(mistakes).correct,
                                    "medium", "student_mistake")),
         Tail(mistakes))
  ELSE SpellingFromMistakes(words, Tail(mistakes))

\* the loops over the vocabulary without the look at `seen`
RECURSIVE SpellingFromVocabulary_NoSeen(_, _, _, _)
SpellingFromVocabulary_NoSeen(words, vocabulary, max, challenging) ==
  IF Len(vocabulary) = 0 \/ Len(words) >= max THEN words
  ELSE IF IF challenging THEN Lower(Head(vocabulary).word) \in Challenging
          ELSE Len(Head(vocabulary).word) > 4
  THEN SpellingFromVocabulary_NoSeen(
         Append(words, SpellingWord(Head(vocabulary).word, Head(vocabulary).context,
                                    IF challenging THEN "medium" ELSE "easy", "vocabulary")),
         Tail(vocabulary), max, challenging)
  ELSE SpellingFromVocabulary_NoSeen(words, Tail(vocabulary), max, challenging)

\* lines 36-47 (challenging = TRUE) and lines 51-63 (FALSE): the loops over the
\* vocabulary, left when the list holds max words
RECURSIVE SpellingFromVocabulary(_, _, _, _)
SpellingFromVocabulary(words, vocabulary, max, challenging) ==
  IF Len(vocabulary) = 0 \/ Len(words) >= max THEN words
  ELSE IF /\ IF challenging THEN Lower(Head(vocabulary).word) \in Challenging
             ELSE Len(Head(vocabulary).word) > 4
          /\ Lower(Head(vocabulary).word) \notin SeenWords(words)
  THEN SpellingFromVocabulary(
         Append(words, SpellingWord(Head(vocabulary).word, Head(vocabulary).context,
                                    IF challenging THEN "medium" ELSE "easy", "vocabulary")),
         Tail(vocabulary), max, challenging)
  ELSE SpellingFromVocabulary(words, Tail(vocabulary), max, challenging)

\* generate, lines 13-65, with max_words = max
SpellingGenerate(vocabulary, mistakes, max) ==
  Take(SpellingFromVocabulary(
         SpellingFromVocabulary(SpellingFromMistakes(<<>>, mistakes), vocabulary, max, TRUE),
         vocabulary, max, FALSE),
       max)

(***************************************************************************)
(* QualityChecker.validate_exercises                                       *)
(***************************************************************************)
\* a finding of the checker: "error" or "warning", the kind of exercise, its
\* number in the list (the total for a finding on the count) and the message
Finding(severity, kind, i, message) == <<severity, kind, i, message>>

When(cond, finding) == IF cond THEN <<finding>> ELSE <<>>

\* _check_fill_in_blank, lines 51-88: the findings on exercise i
CheckFillInBlank(ex, i) ==
  When(~Contains(ex.sentence, BLANK), Finding("error", "Fill-blank", i, "No blank marker"))
    \o When(\E k \in 1..4 : FB_Options(ex)[k] = <<>>,
            Finding("error", "Fill-blank", i, "empty options"))
    \o When(\E j, k \in 1..4 : j < k /\ FB_Options(ex)[j] # <<>>
                                 /\ FB_Options(ex)[j] = FB_Options(ex)[k],
            Finding("warning", "Fill-blank", i, "Duplicate options detected"))
    \o When(ex.correct_answer \notin {"A", "B", "C", "D"},
            Finding("error", "Fill-blank", i, "Invalid answer format"))
    \o When(ex.correct_word # <<>> /\ ex.correct_word \notin Range(FB_Options(ex)),
            Finding("error", "Fill-blank", i, "Correct word not in options"))
    \o When(Len(SplitWS(ex.sentence)) < 4,
            Finding("warning", "Fill-blank", i, "Sentence too short"))

\* _check_flashcards, lines 90-114: the findings on card i
CheckFlashcard(flashcards, i) ==
  When(\E j \in 1..(i - 1) : Lower(flashcards[j].word) = Lower(flashcards[i].word),
       Finding("warning", "Flashcard", i, "Duplicate word"))
    \o When(flashcards[i].word = <<>>, Finding("error", "Flashcard", i, "Missing word"))
    \o When(flashcards[i].translation = <<>>,
            Finding("error", "Flashcard", i, "Missing translation"))
    \o When(flashcards[i].example_sentence = <<>>,
            Finding("warning", "Flashcard", i, "Missing example sentence"))
    \o When(/\ flashcards[i].word # <<>>
            /\ flashcards[i].example_sentence # <<>>
            /\ ~Contains(Lower(flashcards[i].example_sentence), Lower(flashcards[i].word)),
            Finding("warning", "Flashcard", i, "Example doesn't contain word"))

\* _check_spelling without the look at `seen`
CheckSpelling_NoDuplicate(spelling, i) ==
  IF spelling[i].word = <<>> THEN <<Finding("error", "Spelling", i, "Missing word")>>
  ELSE When(spelling[i].sample_sentence = <<>>,
            Finding("warning", "Spelling", i, "Missing sample sentence"))
         \o When(Len(spelling[i].word) < 4, Finding("warning", "Spelling", i, "Word too simple"))
         \o When(/\ spelling[i].sample_sentence # <<>>
                 /\ ~Contains(Lower(spelling[i].sample_sentence), Lower(spelling[i].word)),
                 Finding("warning", "Spelling", i, "Sample doesn't contain word"))

\* _check_spelling, lines 116-143: the findings on exercise i; an exercise
\* without a word is not looked at further and its word is not added to `seen`
CheckSpelling(spelling, i) ==
  IF spelling[i].word = <<>> THEN <<Finding("error", "Spelling", i, "Missing word")>>
  ELSE When(\E j \in 1..(i - 1) : /\ spelling[j].word # <<>>
                                  /\ Lower(spelling[j].word) = Lower(spelling[i].word),
            Finding("error", "Spelling", i, "Duplicate word"))
         \o When(spelling[i].sample_sentence = <<>>,
                 Finding("warning", "Spelling", i, "Missing sample sentence"))
         \o When(Len(spelling[i].word) < 4, Finding("warning", "Spelling", i, "Word too simple"))
         \o When(/\ spelling[i].sample_sentence # <<>>
                 /\ ~Contains(Lower(spelling[i].sample_sentence), Lower(spelling[i].word)),
                 Finding("warning", "Spelling", i, "Sample doesn't contain word"))

\* lines 28-33: the finding on the total
CheckTotal(total) ==
  When(total < 8, Finding("warning", "Total", total, "below minimum (8)"))
    \o When(total > 12, Finding("warning", "Total", total, "above maximum (12)"))

\* validate_exercises, lines 16-33: every finding, in the order the checks run
Findings(fill_in_blank, flashcards, spelling) ==
  Flatten([i \in 1..Len(fill_in_blank) |-> CheckFillInBlank(fill_in_blank[i], i)])
    \o Flatten([i \in 1..Len(flashcards) |-> CheckFlashcard(flashcards, i)])
    \o Flatten([i \in 1..Len(spelling) |-> CheckSpelling(spelling, i)])
    \o CheckTotal(Len(fill_in_blank) + Len(flashcards) + Len(spelling))

\* self.errors and self.warnings when validate_exercises is done
ErrorsOf(findings)   == SelectSeq(findings, LAMBDA f : f[1] = "error")
WarningsOf(findings) == SelectSeq(findings, LAMBDA f : f[1] = "warning")

\* the check fails on warnings too
Valid_NoFindings(errors, warnings) == Len(errors) = 0 /\ Len(warnings) = 0

\* line 49: return len(self.errors) == 0
Valid(errors, warnings) == Len(errors) = 0

(***************************************************************************)
(* LessonProcessor.process_lesson                                          *)
(***************************************************************************)
\* main.py lines 58, 60 and 62: the limits process_lesson sets on the generators
max_exercises == 4
max_cards == 4
max_words == 4

EmptyBundle == [fill_in_blank |-> <<>>, flashcards |-> <<>>, spelling |-> <<>>]

\* line 36: not transcript or not transcript.strip()
IsBlank_EmptyOnly(transcript) == transcript = <<>>

IsBlank(transcript) == transcript = <<>> \/ Strip(transcript) = <<>>

\* one pass with floors so high that a total above 12 can meet no branch
TrimOnce_HighFloors(lists) ==
  IF Len(lists.spelling) > 5
  THEN [lists EXCEPT !.spelling = DropLast(lists.spelling, 1)]
  ELSE IF Len(lists.flashcards) > 5
  THEN [lists EXCEPT !.flashcards = DropLast(lists.flashcards, 1)]
  ELSE IF Len(lists.fill_in_blank) > 5
  THEN [lists EXCEPT !.fill_in_blank = DropLast(lists.fill_in_blank, 1)]
  ELSE lists

\* one pass that looks at the flashcards before the spelling words
TrimOnce_FlashcardsFirst(lists) ==
  IF Len(lists.flashcards) > 3
  THEN [lists EXCEPT !.flashcards = DropLast(lists.flashcards, 1)]
  ELSE IF Len(lists.spelling) > 2
  THEN [lists EXCEPT !.spelling = DropLast(lists.spelling, 1)]
  ELSE IF Len(lists.fill_in_blank) > 3
  THEN [lists EXCEPT !.fill_in_blank = DropLast(lists.fill_in_blank, 1)]
  ELSE lists

\* lines 76-81: one pass of the balancing loop, the first branch whose list is
\* above its floor drops the last item of that list
TrimOnce(lists) ==
  IF Len(lists.spelling) > 2 THEN [lists EXCEPT !.spelling = DropLast(lists.spelling, 1)]
  ELSE IF Len(lists.flashcards) > 3
  THEN [lists EXCEPT !.flashcards = DropLast(lists.flashcards, 1)]
  ELSE IF Len(lists.fill_in_blank) > 3
  THEN [lists EXCEPT !.fill_in_blank = DropLast(lists.fill_in_blank, 1)]
  ELSE lists

Total(lists) == Len(lists.fill_in_blank) + Len(lists.flashcards) + Len(lists.spelling)

\* the loop left alone: the lists are returned as generated
Balance_NoTrim(lists) == lists

\* a loop that fills up a total below 8 with a copy of the last fill-in-blank
\* exercise
Balance_Backfill(lists) ==
  IF Total(lists) < 8 /\ Len(lists.fill_in_blank) > 0
  THEN [lists EXCEPT !.fill_in_blank =
          Append(lists.fill_in_blank, lists.fill_in_blank[Len(lists.fill_in_blank)])]
  ELSE lists

\* lines 70-82: while total > 12. A pass always finds a branch: with spelling
\* at most 2 and flashcards at most 3 a total above 12 leaves fill_in_blank
\* above 3.
RECURSIVE Balance(_)
Balance(lists) == IF Total(lists) > 12 THEN Balance(TrimOnce(lists)) ELSE lists

\* lines 57-67: the three generators run with the given limits, the generator
\* of pseudo-random numbers in state rng when the first of them starts
GeneratedWith(vocabulary, mistakes, sentences, rng, fib_max, cards_max, words_max) ==
  [fill_in_blank |-> FibGenerate(mistakes, sentences, fib_max, rng),
   flashcards    |-> FlashcardGenerate(vocabulary, cards_max),
   spelling      |-> SpellingGenerate(vocabulary, mistakes, words_max)]

\* what is generated and what is left of it after the balancing loop
Balanced(generated) == [generated |-> generated, lists |-> Balance(generated)]

\* the generators without their limits and the balancing loop left out
Unbalanced(generated) == [generated |-> generated, lists |-> generated]

ExercisesFor_Unlimited(vocabulary, mistakes, sentences, rng) ==
  Unbalanced(GeneratedWith(vocabulary, mistakes, sentences, rng,
                           Len(mistakes) + Len(sentences),
                           Len(vocabulary),
                           Len(mistakes) + 2 * Len(vocabulary)))

\* lines 56-82: the limits are set, the generators run, the total is balanced
ExercisesFor(vocabulary, mistakes, sentences, rng) ==
  Balanced(GeneratedWith(vocabulary, mistakes, sentences, rng,
                         max_exercises, max_cards, max_words))

\* MistakeExtractor.extract, lines 14-32, as one value
MistakesOf(corrections) == [k \in 1..Len(corrections) |-> MistakeOf(corrections[k])]

MistakesExtract(transcript) == MistakesOf(ExtractCorrections(transcript))

\* the except clause lets the exception through
OnException_Propagate(exc) == [pc |-> "raised", result |-> EmptyBundle]

\* lines 113-117: the except clause, whatever the exception
OnException(exc) == [pc |-> "returned", result |-> EmptyBundle]

\* the lines the transcripts are made of
PL_L_StudentStay == <<"S","t","u","d","e","n","t",":"," ","I"," ","s","t","a","y"," ","i","n"," ","o","l","d"," ","D","e","l","h","i"," ","h","o","t","e","l"," ","y","e","s","t","e","r","d","a","y">>
PL_L_Correction  == <<"T","e","a","c","h","e","r",":"," ","C","o","r","r","e","c","t","i","o","n",":"," ","I"," ","s","t","a","y","e","d"," ","i","n"," ","o","l","d"," ","D","e","l","h","i"," ","h","o","t","e","l"," ","y","e","s","t","e","r","d","a","y","!"," ","G","o","o","d">>
PL_L_StudentBuy  == <<"S","t","u","d","e","n","t",":"," ","W","e"," ","b","o","u","g","h","t"," ","v","e","g","e","t","a","b","l","e","s">>
PL_L_StudentEats == <<"S","t","u","d","e","n","t",":"," ","I"," ","e","a","t","s"," ","r","i","c","e">>
PL_L_KeyWords    == <<"T","e","a","c","h","e","r",":"," ","K","e","y"," ","w","o","r","d","s",":"," ","h","o","t","e","l",","," ","b","r","e","a","k","f","a","s","t",","," ","m","u","s","i","c",","," ","v","e","g","e","t","a","b","l","e","s",","," ","l","a","u","n","d","r","y">>
PL_L_Unlabelled  == <<"I","t"," ","w","a","s"," ","c","o","l","d","."," ","W","e"," ","d","i","d"," ","l","a","u","n","d","r","y","."," ","T","h","e","y"," ","h","a","v","e"," ","p","e","t","s","."," ","Y","o","u"," ","c","a","n"," ","s","w","i","m","."," ","S","h","e"," ","w","i","l","l"," ","s","i","n","g"," ","l","o","u","d",".">>
PL_L_Space       == <<" ">>

PL_LinePool == {PL_L_StudentStay, PL_L_Correction, PL_L_StudentBuy, PL_L_StudentEats,
                PL_L_KeyWords, PL_L_Unlabelled, PL_L_Space}

\* the longest transcript, in lines
MaxTranscriptLines == 3

\* the transcripts: lines joined by newlines (none: the empty transcript), and
\* two more that hold white space only
PL_Transcripts ==
  {Join(ls, <<NL>>) : ls \in SeqUpTo(PL_LinePool, MaxTranscriptLines)}
    \cup {<<"\t">>, <<" ","\n","\t","\r">>}

PL_Frame == UNCHANGED <<ec_vars, fb_vars, gq_vars, cz_vars, me_vars, sp_vars, fg_vars, qc_vars, bl_vars>>

\* the processor after __init__ (lines 18-27) and the arguments of the call.
\* GeminiHelper.enabled is decided by the environment (the API key and the
\* google package); so is the encoding of standard output.
PL_Init ==
  /\ BL_Idle
  /\ QC_Idle
  /\ FG_Idle
  /\ SP_Idle
  /\ ME_Idle
  /\ EC_Idle
  /\ FB_Idle
  /\ GQ_Idle
  /\ CZ_Idle
  /\ pl_transcript \in PL_Transcripts
  /\ pl_gemini \in BOOLEAN
  /\ pl_stdout \in {"utf-8", "ascii"}
  /\ pl_vocabulary = <<>>
  /\ pl_mistakes = <<>>
  /\ pl_sentences = <<>>
  /\ pl_generated = EmptyBundle
  /\ pl_lists = EmptyBundle
  /\ pl_errors = <<>>
  /\ pl_warnings = <<>>
  /\ pl_ran = {}
  /\ pl_exc = "none"
  /\ pl_result = EmptyBundle
  /\ pl_pc = "start"

\* lines 36-38: the blank transcript
PL_Blank ==
  /\ pl_pc = "start"
  /\ IsBlank(pl_transcript)
  /\ pl_result' = EmptyBundle
  /\ pl_pc' = "returned"
  /\ UNCHANGED <<pl_transcript, pl_gemini, pl_stdout, pl_vocabulary, pl_mistakes, pl_sentences,
                 pl_generated, pl_lists, pl_errors, pl_warnings, pl_ran, pl_exc>>
  /\ PL_Frame

\* line 45
PL_ExtractVocabulary ==
  /\ pl_pc = "start"
  /\ ~IsBlank(pl_transcript)
  /\ pl_vocabulary' = VocabularyExtract(pl_transcript)
  /\ pl_ran' = pl_ran \cup {"VocabularyExtractor"}
  /\ pl_pc' = "mistakes"
  /\ UNCHANGED <<pl_transcript, pl_gemini, pl_stdout, pl_mistakes, pl_sentences,
                 pl_generated, pl_lists, pl_errors, pl_warnings, pl_exc, pl_result>>
  /\ PL_Frame

\* line 46
PL_ExtractMistakes ==
  /\ pl_pc = "mistakes"
  /\ pl_mistakes' = MistakesExtract(pl_transcript)
  /\ pl_ran' = pl_ran \cup {"MistakeExtractor"}
  /\ pl_pc' = "sentences"
  /\ UNCHANGED <<pl_transcript, pl_gemini, pl_stdout, pl_vocabulary, pl_sentences,
                 pl_generated, pl_lists, pl_errors, pl_warnings, pl_exc, pl_result>>
  /\ PL_Frame

\* line 47, Gemini disabled
PL_ExtractSentences ==
  /\ pl_pc = "sentences"
  /\ ~pl_gemini
  /\ pl_sentences' = SentenceExtract(pl_transcript)
  /\ pl_ran' = pl_ran \cup {"SentenceExtractor"}
  /\ pl_pc' = "generate"
  /\ UNCHANGED <<pl_transcript, pl_gemini, pl_stdout, pl_vocabulary, pl_mistakes,
                 pl_generated, pl_lists, pl_errors, pl_warnings, pl_exc, pl_result>>
  /\ PL_Frame

\* line 47, Gemini enabled: sentence_extractor.py line 24 calls
\* extract_sentences_with_ai, which GeminiHelper does not have
PL_ExtractSentencesRaises ==
  /\ pl_pc = "sentences"
  /\ pl_gemini
  /\ pl_ran' = pl_ran \cup {"SentenceExtractor"}
  /\ pl_exc' = "AttributeError"
  /\ pl_pc' = "except"
  /\ UNCHANGED <<pl_transcript, pl_gemini, pl_stdout, pl_vocabulary, pl_mistakes, pl_sentences,
                 pl_generated, pl_lists, pl_errors, pl_warnings, pl_result>>
  /\ PL_Frame

\* lines 56-95: the generators and the balancing loop; below 8 nothing is added
PL_Generate ==
  /\ pl_pc = "generate"
  /\ \E rng \in 0..(NRng - 1) :
       \E ex \in {ExercisesFor(pl_vocabulary, pl_mistakes, pl_sentences, rng)} :
         /\ pl_generated' = ex.generated
         /\ pl_lists' = ex.lists
  /\ pl_ran' = pl_ran \cup {"FillInBlankGenerator", "FlashcardGenerator", "SpellingGenerator"}
  /\ pl_pc' = "validate"
  /\ UNCHANGED <<pl_transcript, pl_gemini, pl_stdout, pl_vocabulary, pl_mistakes, pl_sentences,
                 pl_errors, pl_warnings, pl_exc, pl_result>>
  /\ PL_Frame

\* what validate_exercises leaves in the checker (quality_checker.py lines 20-33)
PL_Checked ==
  \E f \in {Findings(pl_lists.fill_in_blank, pl_lists.flashcards, pl_lists.spelling)} :
    /\ pl_errors' = ErrorsOf(f)
    /\ pl_warnings' = WarningsOf(f)
    /\ pl_ran' = pl_ran \cup {"QualityChecker"}

\* lines 99-111: the quality check and the return of the three lists
PL_Validate ==
  /\ pl_pc = "validate"
  /\ pl_stdout = "utf-8"
  /\ PL_Checked
  /\ pl_result' = pl_lists
  /\ pl_pc' = "returned"
  /\ UNCHANGED <<pl_transcript, pl_gemini, pl_stdout, pl_vocabulary, pl_mistakes, pl_sentences,
                 pl_generated, pl_lists, pl_exc>>
  /\ PL_Frame

\* line 99 when standard output cannot encode the marks of the report
\* (quality_checker.py lines 37, 42, 47: one of them is always printed)
PL_ValidateRaises ==
  /\ pl_pc = "validate"
  /\ pl_stdout = "ascii"
  /\ PL_Checked
  /\ pl_exc' = "UnicodeEncodeError"
  /\ pl_pc' = "except"
  /\ UNCHANGED <<pl_transcript, pl_gemini, pl_stdout, pl_vocabulary, pl_mistakes, pl_sentences,
                 pl_generated, pl_lists, pl_result>>
  /\ PL_Frame

\* lines 113-117
PL_Except ==
  /\ pl_pc = "except"
  /\ pl_result' = OnException(pl_exc).result
  /\ pl_pc' = OnException(pl_exc).pc
  /\ UNCHANGED <<pl_transcript, pl_gemini, pl_stdout, pl_vocabulary, pl_mistakes, pl_sentences,
                 pl_generated, pl_lists, pl_errors, pl_warnings, pl_ran, pl_exc>>
  /\ PL_Frame

PL_Next ==
  \/ PL_Blank
  \/ PL_ExtractVocabulary
  \/ PL_ExtractMistakes
  \/ PL_ExtractSentences
  \/ PL_ExtractSentencesRaises
  \/ PL_Generate
  \/ PL_Validate
  \/ PL_ValidateRaises
  \/ PL_Except

SpecPL == PL_Init /\ [][PL_Next]_vars

(***************************************************************************)
(* Claims on LessonProcessor.process_lesson                                *)
(***************************************************************************)
\* C1: for every transcript process_lesson returns a bundle and never raises:
\* no step of the call ends it by an exception, a thrown exception is always
\* followed by the except clause and the return, and when
\* an exception was thrown on the way (in extraction or in the quality
\* validation) it was caught and the result is the all-empty bundle.
C1_ReturnsAndNeverRaises ==
  [][/\ pl_pc' # "raised"
     /\ pl_exc' # "none" => pl_pc' \in {"except", "returned"}
     /\ pl_pc = "except" => pl_pc' = "returned" /\ pl_result' = EmptyBundle
     /\ pl_pc' = "returned" /\ pl_exc' # "none" => pl_result' = EmptyBundle]_vars

\* a call that generated exercises, then met an exception in the quality
\* validation, and has returned
C1_Witness ==
  /\ pl_pc = "returned"
  /\ pl_exc = "UnicodeEncodeError"
  /\ Total(pl_lists) > 0

\* C2: the bundle process_lesson returns holds at most 12 exercises in all.
C2_AtMostTwelve == pl_pc = "returned" => Total(pl_result) <= 12

\* a returned bundle of exactly 12 exercises, from a vocabulary and sentences
\* that offered more than the generators were allowed to take
C2_Witness ==
  /\ pl_pc = "returned"
  /\ Total(pl_result) = 12
  /\ Len(pl_vocabulary) > max_cards
  /\ Len(pl_sentences) > max_exercises

\* C8: when the transcript is empty or holds white space only, no extractor,
\* no generator and not the quality checker runs, nothing is raised, and what
\* is returned is exactly the all-empty bundle.
C8_BlankTranscriptEmptyBundle ==
  (\A k \in 1..Len(pl_transcript) : pl_transcript[k] \in SpaceCh) =>
    /\ pl_ran = {}
    /\ pl_exc = "none"
    /\ pl_pc \in {"start", "returned"}
    /\ pl_pc = "returned" => pl_result = EmptyBundle

\* a call with a transcript of white space only has returned
C8_Witness ==
  /\ pl_pc = "returned"
  /\ Len(pl_transcript) > 1
  /\ \A k \in 1..Len(pl_transcript) : pl_transcript[k] \in SpaceCh

(***************************************************************************)
(* MistakeExtractor._categorize_error and _identify_focus_word on one pair *)
(***************************************************************************)
\* the sentences the pairs are made of
ME_Incorrect == {<<"Y","e","s","t","e","r","d","a","y"," ","I"," ","g","o"," ","t","o"," ","m","a","r","k","e","t",".">>, <<"I"," ","w","a","k","i","n","g"," ","u","p"," ","a","t"," ","7"," ","A","M",".">>, <<"I"," ","e","a","t","s"," ","b","r","e","a","d",".">>,
                 <<"H","e","l","l","o",","," ","I"," ","a","m"," ","f","i","n","e">>, <<"e","a","t"," ","I"," ","b","r","e","a","d">>, <<"I"," ","e","a","t"," ","b","r","e","a","d">>,
                 <<"H","e"," ","i","s"," ","t","e","a","c","h","e","r"," ","a","n","d"," ","I"," ","b","u","y"," ","e","g","g"," ","l","a","s","t"," ","w","e","e","k">>, <<"I"," ","l","i","k","e","s"," ","e","g","g","s",".">>}

ME_Correct == {<<"Y","e","s","t","e","r","d","a","y"," ","I"," ","w","e","n","t"," ","t","o"," ","t","h","e"," ","m","a","r","k","e","t">>, <<"I"," ","w","a","k","e"," ","u","p"," ","a","t"," ","7"," ","A","M",".">>, <<"I"," ","e","a","t"," ","b","r","e","a","d",".">>,
               <<"H","e","l","l","o",","," ","I"," ","a","m"," ","w","e","l","l">>, <<"I"," ","e","a","t"," ","b","r","e","a","d">>, <<"H","e"," ","i","s"," ","a"," ","t","e","a","c","h","e","r">>,
               <<"L","a","s","t"," ","w","e","e","k"," ","I"," ","b","o","u","g","h","t"," ","t","w","o"," ","e","g","g","s">>, <<"I"," ","s","t","a","y","e","d">>}

ME_Frame == UNCHANGED <<ec_vars, fb_vars, gq_vars, cz_vars, pl_vars, sp_vars, fg_vars, qc_vars, bl_vars>>

\* a pair as extract hands it to the two helpers (line 20: both are non-empty)
ME_Init ==
  /\ BL_Idle
  /\ QC_Idle
  /\ FG_Idle
  /\ SP_Idle
  /\ EC_Idle
  /\ FB_Idle
  /\ GQ_Idle
  /\ CZ_Idle
  /\ PL_Idle
  /\ me_incorrect \in ME_Incorrect
  /\ me_correct \in ME_Correct
  /\ me_error_type = <<>>
  /\ me_focus_word = <<>>
  /\ me_pc = "start"

\* line 21
ME_Categorize ==
  /\ me_pc = "start"
  /\ me_error_type' = CategorizeError(me_incorrect, me_correct)
  /\ me_pc' = "categorized"
  /\ UNCHANGED <<me_incorrect, me_correct, me_focus_word>>
  /\ ME_Frame

\* line 22
ME_IdentifyFocusWord ==
  /\ me_pc = "categorized"
  /\ me_focus_word' = IdentifyFocusWord(me_incorrect, me_correct)
  /\ me_pc' = "done"
  /\ UNCHANGED <<me_incorrect, me_correct, me_error_type>>
  /\ ME_Frame

ME_Next == ME_Categorize \/ ME_IdentifyFocusWord

SpecME == ME_Init /\ [][ME_Next]_vars

(***************************************************************************)
(* Claims on the categories and the focus word                             *)
(***************************************************************************)
\* C12: the category of a pair is that of the first rule, in the fixed order
\* past_tense, verb_tense, subject_verb_agreement, articles, plural,
\* prepositions, gerund_infinitive, word_form, sentence_structure, whose
\* substring predicate holds, and grammar_general when no rule holds.
C12_FirstRuleInOrder ==
  me_pc # "start" =>
    \/ /\ RulesHolding(me_incorrect, me_correct) = {}
       /\ me_error_type = ET_grammar_general
    \/ \E n \in RulesHolding(me_incorrect, me_correct) :
         /\ \A k \in RulesHolding(me_incorrect, me_correct) : n <= k
         /\ me_error_type = RuleTypes[n]

\* a pair with 'yesterday' and go -> went that the articles rule matches too
\* has been categorised as past tense
C12_Witness ==
  /\ me_pc = "done"
  /\ {1, 4} \subseteq RulesHolding(me_incorrect, me_correct)
  /\ me_error_type = ET_grammar_past_tense

\* the tokens of a sentence: split at white space, lower-cased
TokensOf(sentence) == SplitWS(Lower(sentence))

\* the tokens without the punctuation around them
CleanTokensOf(sentence) ==
  [k \in 1..Len(TokensOf(sentence)) |-> StripSet(TokensOf(sentence)[k], PunctCh)]

\* the focus word as stated, on the tokens inc and cor of the two sentences: the
\* first correct token that is no token of the incorrect sentence, else the
\* first correct token that differs from the incorrect token at its position,
\* else the first correct token; reported without the punctuation around it
StatedFocusWord(inc, cor) ==
  LET absent == {k \in 1..Len(cor) : cor[k] \notin Range(inc)}
      differ == {k \in 1..Len(cor) : k <= Len(inc) /\ cor[k] # inc[k]}
  IN  IF absent # {}
      THEN StripSet(cor[CHOOSE k \in absent : \A j \in absent : k <= j], PunctCh)
      ELSE IF differ # {}
      THEN StripSet(cor[CHOOSE k \in differ : \A j \in differ : k <= j], PunctCh)
      ELSE StripSet(cor[1], PunctCh)

\* C13: focus_word is the first token of the correct sentence that does not
\* occur among the tokens of the incorrect sentence; when every correct token
\* occurs there, the first correct token that differs from the incorrect token
\* at the same position; otherwise the first token of the correct sentence.
\* The tokens of both sentences are read the same way, either as they are
\* written or both without the punctuation around them.
C13_FocusWordAsStated ==
  me_pc = "done" =>
    \/ me_focus_word = StatedFocusWord(TokensOf(me_incorrect), TokensOf(me_correct))
    \/ me_focus_word = StatedFocusWord(CleanTokensOf(me_incorrect), CleanTokensOf(me_correct))

\* C14: the list VocabularyExtractor.extract returns never holds two items
\* whose words are equal ignoring case, whichever of the three sources
\* (corrections, announced vocabulary, topic table) they come from.
C14_VocabularyWordsDistinct ==
  \A i, j \in 1..Len(pl_vocabulary) :
    i # j => Lower(pl_vocabulary[i].word) # Lower(pl_vocabulary[j].word)

\* a vocabulary from a transcript in which the word 'hotel' is a key word of a
\* correction, is announced by the teacher and is in the table of the topic
\* (travel): it is there once, from the correction
C14_Witness ==
  /\ pl_pc = "returned"
  /\ \E k \in 1..Len(pl_vocabulary) :
       /\ Lower(pl_vocabulary[k].word) = <<"h","o","t","e","l">>
       /\ pl_vocabulary[k].category = "corrected_usage"
  /\ \E k \in 1..Len(pl_vocabulary) : pl_vocabulary[k].category = "explicit_vocabulary"
  /\ Contains(pl_transcript, PL_L_KeyWords)
  /\ IdentifyLessonTopic(pl_transcript) > 0
  /\ Topics[IdentifyLessonTopic(pl_transcript)].name = "travel"

(***************************************************************************)
(* SpellingGenerator.generate as a state machine                           *)
(***************************************************************************)
\* the vocabulary items the inputs are made of: a word twice in different case,
\* a challenging word, a word too short for the last loop
SP_VocabularyPool == {
  VocabItem(<<"h","o","t","e","l">>, <<"W","e"," ","s","t","a","y","e","d"," ","i","n"," ","a"," ","h","o","t","e","l">>, "corrected_usage", "high"),
  VocabItem(<<"B","r","e","a","k","f","a","s","t">>, <<"K","e","y"," ","w","o","r","d","s",":"," ","B","r","e","a","k","f","a","s","t",","," ","v","e","g","e","t","a","b","l","e","s">>, "explicit_vocabulary", "high"),
  VocabItem(<<"b","r","e","a","k","f","a","s","t">>, <<"I"," ","e","a","t"," ","b","r","e","a","k","f","a","s","t">>, "topic_daily_routines", "medium"),
  VocabItem(<<"v","e","g","e","t","a","b","l","e","s">>, <<"K","e","y"," ","w","o","r","d","s",":"," ","B","r","e","a","k","f","a","s","t",","," ","v","e","g","e","t","a","b","l","e","s">>, "explicit_vocabulary", "high"),
  VocabItem(<<"c","a","t">>, <<"T","h","e"," ","c","a","t"," ","s","l","e","e","p","s">>, "explicit_vocabulary", "high")}

\* the longest vocabulary
MaxVocabulary == 3

\* a mistake as generate reads it: focus_word and correct
SP_Mistake(focus_word, correct) == [focus_word |-> focus_word, correct |-> correct]

\* the mistakes are a stretch of this list: a word twice in different case,
\* a word of two letters, an empty focus word
SP_MistakeList == <<
  SP_Mistake(<<"s","t","a","y","e","d">>, <<"W","e"," ","s","t","a","y","e","d"," ","i","n"," ","a"," ","h","o","t","e","l">>),
  SP_Mistake(<<"h","o","t","e","l">>, <<"T","h","e"," ","h","o","t","e","l"," ","w","a","s"," ","n","i","c","e">>),
  SP_Mistake(<<"H","o","t","e","l">>, <<"H","o","t","e","l"," ","r","o","o","m","s"," ","a","r","e"," ","s","m","a","l","l">>),
  SP_Mistake(<<"b","o","u","g","h","t">>, <<"I"," ","b","o","u","g","h","t"," ","v","e","g","e","t","a","b","l","e","s">>),
  SP_Mistake(<<"b","r","e","a","k","f","a","s","t">>, <<"I"," ","e","a","t"," ","b","r","e","a","k","f","a","s","t">>),
  SP_Mistake(<<"w","e","n","t">>, <<"I"," ","w","e","n","t"," ","h","o","m","e">>),
  SP_Mistake(<<"a","t">>, <<"I"," ","a","m"," ","a","t"," ","h","o","m","e">>),
  SP_Mistake(<<>>, <<"I"," ","e","a","t">>)>>

SP_MistakeLists ==
  {SubSeq(SP_MistakeList, a, b) : a \in 1..Len(SP_MistakeList), b \in 0..Len(SP_MistakeList)}

SP_Frame == UNCHANGED <<ec_vars, fb_vars, gq_vars, cz_vars, pl_vars, me_vars, fg_vars, qc_vars, bl_vars>>

\* the generator after __init__ (max_words = 4, line 12) and the arguments
SP_Init ==
  /\ BL_Idle
  /\ QC_Idle
  /\ FG_Idle
  /\ EC_Idle
  /\ FB_Idle
  /\ GQ_Idle
  /\ CZ_Idle
  /\ PL_Idle
  /\ ME_Idle
  /\ sp_vocabulary \in SeqUpTo(SP_VocabularyPool, MaxVocabulary)
  /\ sp_mistakes \in SP_MistakeLists
  /\ sp_words = <<>>
  /\ sp_result = <<>>
  /\ sp_pc = "mistakes"

\* lines 18-29
SP_FromMistakes ==
  /\ sp_pc = "mistakes"
  /\ sp_words' = SpellingFromMistakes(sp_words, sp_mistakes)
  /\ sp_pc' = "challenging"
  /\ UNCHANGED <<sp_vocabulary, sp_mistakes, sp_result>>
  /\ SP_Frame

\* lines 32-47
SP_Challenging ==
  /\ sp_pc = "challenging"
  /\ sp_words' = SpellingFromVocabulary(sp_words, sp_vocabulary, max_words, TRUE)
  /\ sp_pc' = "fill"
  /\ UNCHANGED <<sp_vocabulary, sp_mistakes, sp_result>>
  /\ SP_Frame

\* lines 50-63
SP_Fill ==
  /\ sp_pc = "fill"
  /\ sp_words' = SpellingFromVocabulary(sp_words, sp_vocabulary, max_words, FALSE)
  /\ sp_pc' = "return"
  /\ UNCHANGED <<sp_vocabulary, sp_mistakes, sp_result>>
  /\ SP_Frame

\* line 65: spelling_words[:self.max_words]
SP_Return ==
  /\ sp_pc = "return"
  /\ sp_result' = Take(sp_words, max_words)
  /\ sp_pc' = "done"
  /\ UNCHANGED <<sp_vocabulary, sp_mistakes, sp_words>>
  /\ SP_Frame

SP_Next == SP_FromMistakes \/ SP_Challenging \/ SP_Fill \/ SP_Return

SpecSP == SP_Init /\ [][SP_Next]_vars

(***************************************************************************)
(* Claims on SpellingGenerator.generate                                    *)
(***************************************************************************)
\* C15: the list generate returns never holds two entries whose words are equal
\* ignoring case, and it holds at most max_words entries.
C15_SpellingWordsDistinctAndCapped ==
  sp_pc = "done" =>
    /\ Len(sp_result) <= max_words
    /\ \A i, j \in 1..Len(sp_result) :
         i # j => Lower(sp_result[i].word) # Lower(sp_result[j].word)

\* generate has returned for a vocabulary that repeats a word and holds the
\* focus word of a mistake, after the loops had collected more than max_words
C15_Witness ==
  /\ sp_pc = "done"
  /\ Len(sp_words) > max_words
  /\ \E i, j \in 1..Len(sp_vocabulary) :
       i # j /\ Lower(sp_vocabulary[i].word) = Lower(sp_vocabulary[j].word)
  /\ \E i \in 1..Len(sp_vocabulary), j \in 1..Len(sp_mistakes) :
       Lower(sp_vocabulary[i].word) = Lower(sp_mistakes[j].focus_word)

(***************************************************************************)
(* Claims on the list MistakeExtractor.extract returns                     *)
(***************************************************************************)
\* C16: the list extract returns never holds two entries with the same student
\* sentence and the same correction, compared in lower case: a sentence that is
\* corrected twice in the same way yields one entry.
C16_MistakesDistinct ==
  ec_pc = "done" =>
    \A i, j \in 1..Len(ec_mistakes) :
      i # j => \/ Lower(ec_mistakes[i].incorrect) # Lower(ec_mistakes[j].incorrect)
               \/ Lower(ec_mistakes[i].correct) # Lower(ec_mistakes[j].correct)

(***************************************************************************)
(* Two invocations of process_lesson on one transcript                     *)
(***************************************************************************)
\* what a bundle holds when the order of the options is left aside
ContentOf(lists) ==
  [fill_in_blank |-> [k \in 1..Len(lists.fill_in_blank) |->
                        [sentence     |-> lists.fill_in_blank[k].sentence,
                         correct_word |-> lists.fill_in_blank[k].correct_word,
                         options      |-> {lists.fill_in_blank[k].option_a,
                                           lists.fill_in_blank[k].option_b,
                                           lists.fill_in_blank[k].option_c,
                                           lists.fill_in_blank[k].option_d}]],
   flashcards    |-> lists.flashcards,
   spelling      |-> lists.spelling]

\* C18: the bundle an invocation of process_lesson has returned and the bundle
\* another invocation on the same transcript returns, whatever the state of
\* the pseudo-random generator it meets, hold the same blanked sentences,
\* correct words, sets of options, flashcards and spelling words.
C18_SameContentWhateverTheRng ==
  pl_pc = "returned" /\ pl_exc = "none" /\ pl_ran # {} =>
    \A rng \in 0..(NRng - 1) :
      ContentOf(ExercisesFor(pl_vocabulary, pl_mistakes, pl_sentences, rng).lists)
        = ContentOf(pl_result)

(***************************************************************************)
(* FillInBlankGenerator.generate as a state machine                        *)
(***************************************************************************)
\* the mistakes are a stretch of this list, each as MistakeExtractor builds it
\* from a pair; one corrected sentence comes twice
FG_MistakeList == <<
  MistakeOf(<<<<"I"," ","e","a","t","s"," ","b","r","e","a","d",".">>, <<"I"," ","e","a","t"," ","b","r","e","a","d">>>>),
  MistakeOf(<<<<"I"," ","w","a","k","i","n","g"," ","u","p"," ","a","t"," ","7"," ","A","M",".">>, <<"I"," ","w","a","k","e"," ","u","p"," ","a","t"," ","7"," ","A","M">>>>),
  MistakeOf(<<<<"I"," ","e","a","t","e","d"," ","b","r","e","a","d">>, <<"I"," ","e","a","t"," ","b","r","e","a","d">>>>),
  MistakeOf(<<<<"Y","e","s","t","e","r","d","a","y"," ","I"," ","g","o"," ","t","o"," ","m","a","r","k","e","t",".">>, <<"Y","e","s","t","e","r","d","a","y"," ","I"," ","w","e","n","t"," ","t","o"," ","t","h","e"," ","m","a","r","k","e","t">>>>),
  MistakeOf(<<<<"H","e"," ","i","s"," ","t","e","a","c","h","e","r">>, <<"H","e"," ","i","s"," ","a"," ","t","e","a","c","h","e","r">>>>),
  MistakeOf(<<<<"I"," ","b","u","y"," ","t","w","o"," ","e","g","g"," ","l","a","s","t"," ","w","e","e","k">>, <<"L","a","s","t"," ","w","e","e","k"," ","I"," ","b","o","u","g","h","t"," ","t","w","o"," ","e","g","g","s">>>>),
  MistakeOf(<<<<"I"," ","l","i","k","e","s"," ","m","u","s","i","c">>, <<"I"," ","l","i","k","e"," ","m","u","s","i","c">>>>)>>

FG_MistakeLists ==
  {SubSeq(FG_MistakeList, a, b) : a \in 1..Len(FG_MistakeList), b \in 0..Len(FG_MistakeList)}

\* the practice sentences: a corrected sentence, a sentence with two meaningful
\* words, a sentence without one
FG_SentencePool == {
  SentenceItem(<<"I"," ","e","a","t"," ","b","r","e","a","d">>, "correction", 10),
  SentenceItem(<<"W","e"," ","b","o","u","g","h","t"," ","v","e","g","e","t","a","b","l","e","s">>, "student_correct", 8),
  SentenceItem(<<"I"," ","a","m"," ","o","k">>, "student_correct", 8)}

\* the longest list of practice sentences
MaxPractice == 2

FG_Frame == UNCHANGED <<ec_vars, fb_vars, gq_vars, cz_vars, pl_vars, me_vars, sp_vars, qc_vars, bl_vars>>

\* the generator with max_exercises = 4 (line 17, and main.py line 58), the
\* arguments of the call and lines 22-23
FG_Init ==
  /\ BL_Idle
  /\ QC_Idle
  /\ EC_Idle
  /\ FB_Idle
  /\ GQ_Idle
  /\ CZ_Idle
  /\ PL_Idle
  /\ ME_Idle
  /\ SP_Idle
  /\ fg_mistakes \in FG_MistakeLists
  /\ fg_sentences \in SeqUpTo(FG_SentencePool, MaxPractice)
  /\ fg_rng \in 0..(NRng - 1)
  /\ fg_acc = [exercises |-> <<>>, used |-> {}, rng |-> fg_rng]
  /\ fg_sources = <<>>
  /\ fg_i = 1
  /\ fg_result = <<>>
  /\ fg_pc = "mistakes"

\* the sources after one iteration that took the locals from acc to next
FG_SourcesAfter(acc, next, sentence) ==
  IF Len(next.exercises) > Len(acc.exercises) THEN Append(fg_sources, sentence) ELSE fg_sources

\* lines 26-37: one iteration of the loop over mistakes[:self.max_exercises]
FG_Mistake ==
  /\ fg_pc = "mistakes"
  /\ fg_i <= Len(Take(fg_mistakes, max_exercises))
  /\ \E next \in {FibFromMistakes(fg_acc, <<fg_mistakes[fg_i]>>, max_exercises)} :
       /\ fg_acc' = next
       /\ fg_sources' = FG_SourcesAfter(fg_acc, next, fg_mistakes[fg_i].correct)
  /\ fg_i' = fg_i + 1
  /\ UNCHANGED <<fg_mistakes, fg_sentences, fg_rng, fg_result, fg_pc>>
  /\ FG_Frame

\* the loop over the mistakes is over
FG_MistakesDone ==
  /\ fg_pc = "mistakes"
  /\ fg_i > Len(Take(fg_mistakes, max_exercises))
  /\ fg_i' = 1
  /\ fg_pc' = "sentences"
  /\ UNCHANGED <<fg_mistakes, fg_sentences, fg_rng, fg_acc, fg_sources, fg_result>>
  /\ FG_Frame

\* lines 40-54: one iteration of the loop over the sentences
FG_Sentence ==
  /\ fg_pc = "sentences"
  /\ fg_i <= Len(fg_sentences)
  /\ Len(fg_acc.exercises) < max_exercises
  /\ \E next \in {FibFromSentences(fg_acc, <<fg_sentences[fg_i]>>, max_exercises)} :
       /\ fg_acc' = next
       /\ fg_sources' = FG_SourcesAfter(fg_acc, next, fg_sentences[fg_i].sentence)
  /\ fg_i' = fg_i + 1
  /\ UNCHANGED <<fg_mistakes, fg_sentences, fg_rng, fg_result, fg_pc>>
  /\ FG_Frame

\* lines 41-42 and 56: the loop ends or breaks, and exercises is returned
FG_Return ==
  /\ fg_pc = "sentences"
  /\ fg_i > Len(fg_sentences) \/ Len(fg_acc.exercises) >= max_exercises
  /\ fg_result' = fg_acc.exercises
  /\ fg_pc' = "done"
  /\ UNCHANGED <<fg_mistakes, fg_sentences, fg_rng, fg_acc, fg_sources, fg_i>>
  /\ FG_Frame

FG_Next == FG_Mistake \/ FG_MistakesDone \/ FG_Sentence \/ FG_Return

SpecFG == FG_Init /\ [][FG_Next]_vars

(***************************************************************************)
(* Claims on FillInBlankGenerator.generate                                 *)
(***************************************************************************)
\* C17: generate returns at most max_exercises items and no two of them are
\* built from the same source sentence; five corrections and no practice
\* sentence give at most four items, each from another corrected sentence.
C17_AtMostMaxFromDistinctSentences ==
  fg_pc = "done" =>
    /\ Len(fg_result) <= max_exercises
    /\ Len(fg_sources) = Len(fg_result)
    /\ \A i, j \in 1..Len(fg_sources) : i # j => fg_sources[i] # fg_sources[j]
    /\ \A i \in 1..Len(fg_sources) :
         \/ \E k \in 1..Len(fg_mistakes) : fg_mistakes[k].correct = fg_sources[i]
         \/ \E k \in 1..Len(fg_sentences) : fg_sentences[k].sentence = fg_sources[i]

\* generate has returned four items for five corrections of five different
\* sentences and no practice sentence
C17_Witness ==
  /\ fg_pc = "done"
  /\ Len(fg_mistakes) = 5
  /\ \A i, j \in 1..5 : i # j => fg_mistakes[i].correct # fg_mistakes[j].correct
  /\ fg_sentences = <<>>
  /\ Len(fg_result) = 4

(***************************************************************************)
(* QualityChecker.validate_exercises as a state machine                    *)
(***************************************************************************)
\* a fill-in-blank item as the checker reads it
QC_Item(sentence, options, correct_answer, correct_word) ==
  [sentence |-> sentence, option_a |-> options[1], option_b |-> options[2],
   option_c |-> options[3], option_d |-> options[4],
   correct_answer |-> correct_answer, correct_word |-> correct_word]

QC_Options == <<<<"e","a","t">>, <<"e","a","t","s">>, <<"e","a","t","i","n","g">>, <<"a","t","e">>>>

QC_Good      == QC_Item(<<"I"," ","_","_","_","_","_"," ","b","r","e","a","d"," ","e","v","e","r","y"," ","d","a","y">>, QC_Options, "A", <<"e","a","t">>)
QC_GoodToo   == QC_Item(<<"W","e"," ","_","_","_","_","_"," ","r","i","c","e"," ","a","t"," ","h","o","m","e">>, QC_Options, "D", <<"a","t","e">>)
QC_NoBlank   == QC_Item(<<"I"," ","e","a","t"," ","b","r","e","a","d"," ","e","v","e","r","y"," ","d","a","y">>, QC_Options, "A", <<"e","a","t">>)
QC_EmptyOpt  == QC_Item(<<"I"," ","_","_","_","_","_"," ","b","r","e","a","d"," ","e","v","e","r","y"," ","d","a","y">>, <<<<"e","a","t">>, <<"e","a","t","s">>, <<"e","a","t","i","n","g">>, <<>>>>, "A", <<"e","a","t">>)
QC_WordGone  == QC_Item(<<"I"," ","_","_","_","_","_"," ","b","r","e","a","d"," ","e","v","e","r","y"," ","d","a","y">>, QC_Options, "A", <<"w","a","l","k">>)
QC_BadLetter == QC_Item(<<"I"," ","_","_","_","_","_"," ","b","r","e","a","d"," ","e","v","e","r","y"," ","d","a","y">>, QC_Options, "Z", <<"e","a","t">>)
QC_NoWord    == QC_Item(<<"I"," ","_","_","_","_","_"," ","b","r","e","a","d"," ","e","v","e","r","y"," ","d","a","y">>, QC_Options, "A", <<>>)
\* findings that are warnings only: two equal options, a sentence of two words
QC_Warned    == QC_Item(<<"I"," ","_","_","_","_","_">>, <<<<"e","a","t">>, <<"e","a","t">>, <<"e","a","t","i","n","g">>, <<"a","t","e">>>>, "A", <<"e","a","t">>)

QC_ItemPool == {QC_Good, QC_NoBlank, QC_EmptyOpt, QC_WordGone, QC_BadLetter, QC_NoWord, QC_Warned}

\* a flashcard as the checker reads it
QC_Card(word, translation, example_sentence) ==
  [word |-> word, translation |-> translation, example_sentence |-> example_sentence]

QC_CardHotel   == QC_Card(<<"h","o","t","e","l">>, TranslatePhrase(<<"h","o","t","e","l">>), <<"W","e"," ","s","t","a","y","e","d"," ","i","n"," ","a"," ","h","o","t","e","l">>)
QC_CardHotelUp == QC_Card(<<"H","o","t","e","l">>, TranslatePhrase(<<"h","o","t","e","l">>), <<"T","h","e"," ","H","o","t","e","l"," ","w","a","s"," ","n","i","c","e">>)
QC_CardBread   == QC_Card(<<"b","r","e","a","d">>, TranslatePhrase(<<"b","r","e","a","d">>), <<"I"," ","e","a","t"," ","b","r","e","a","d">>)
QC_CardMusic   == QC_Card(<<"m","u","s","i","c">>, TranslatePhrase(<<"m","u","s","i","c">>), <<"I"," ","l","i","k","e"," ","m","u","s","i","c">>)
QC_CardNoWord  == QC_Card(<<>>, TranslatePhrase(<<"h","o","t","e","l">>), <<"W","e"," ","s","t","a","y","e","d"," ","i","n"," ","a"," ","h","o","t","e","l">>)
QC_CardNoTranslation == QC_Card(<<"h","o","t","e","l">>, <<>>, <<"W","e"," ","s","t","a","y","e","d"," ","i","n"," ","a"," ","h","o","t","e","l">>)

QC_CardPool == {QC_CardHotel, QC_CardNoWord, QC_CardNoTranslation}

\* a spelling item as the checker reads it
QC_Spell(word, sample_sentence) == [word |-> word, sample_sentence |-> sample_sentence]

QC_SpellHotel   == QC_Spell(<<"h","o","t","e","l">>, <<"W","e"," ","s","t","a","y","e","d"," ","i","n"," ","a"," ","h","o","t","e","l">>)
QC_SpellHotelUp == QC_Spell(<<"H","o","t","e","l">>, <<"T","h","e"," ","H","o","t","e","l"," ","w","a","s"," ","n","i","c","e">>)
QC_SpellBread   == QC_Spell(<<"b","r","e","a","d">>, <<"I"," ","e","a","t"," ","b","r","e","a","d">>)
QC_SpellMusic   == QC_Spell(<<"m","u","s","i","c">>, <<"I"," ","l","i","k","e"," ","m","u","s","i","c">>)
QC_SpellNoWord  == QC_Spell(<<>>, <<"W","e"," ","s","t","a","y","e","d"," ","i","n"," ","a"," ","h","o","t","e","l">>)

QC_SpellPool == {QC_SpellHotel, QC_SpellHotelUp, QC_SpellNoWord}

\* the longest lists made of the pools
MaxBlankItems == 1
MaxCardItems == 2
MaxSpellingItems == 2

\* the lists: the short ones made of the pools, and lists long enough for a
\* total of 8 and more
QC_ItemLists ==
  SeqUpTo(QC_ItemPool, MaxBlankItems)
    \cup {<<QC_Good, QC_GoodToo, QC_Good, QC_GoodToo, QC_Good>>,
          <<QC_Good, QC_GoodToo, QC_Warned, QC_GoodToo, QC_Good>>}

QC_CardLists ==
  SeqUpTo(QC_CardPool, MaxCardItems)
    \cup {<<QC_CardHotel, QC_CardBread, QC_CardMusic>>,
          <<QC_CardHotel, QC_CardBread, QC_CardMusic, QC_CardHotelUp>>}

QC_SpellLists ==
  SeqUpTo(QC_SpellPool, MaxSpellingItems)
    \cup {<<QC_SpellHotel, QC_SpellBread, QC_SpellMusic, QC_Spell(<<"v","e","g","e","t","a","b","l","e","s">>, <<"I"," ","b","o","u","g","h","t"," ","v","e","g","e","t","a","b","l","e","s">>)>>}

QC_Frame == UNCHANGED <<ec_vars, fb_vars, gq_vars, cz_vars, pl_vars, me_vars, sp_vars, fg_vars, bl_vars>>

\* the checker after __init__ (lines 12-14) and the arguments of the call; the
\* encoding of standard output is decided by the environment
QC_Init ==
  /\ BL_Idle
  /\ EC_Idle
  /\ FB_Idle
  /\ GQ_Idle
  /\ CZ_Idle
  /\ PL_Idle
  /\ ME_Idle
  /\ SP_Idle
  /\ FG_Idle
  /\ qc_fill_in_blank \in QC_ItemLists
  /\ qc_flashcards \in QC_CardLists
  /\ qc_spelling \in QC_SpellLists
  /\ qc_stdout \in {"utf-8", "ascii"}
  /\ qc_errors = <<>>
  /\ qc_warnings = <<>>
  /\ qc_result = "none"
  /\ qc_left = [errors |-> <<>>, warnings |-> <<>>]
  /\ qc_pc = "start"

\* self.errors and self.warnings with the findings appended
QC_Record(findings) ==
  /\ qc_errors' = qc_errors \o ErrorsOf(findings)
  /\ qc_warnings' = qc_warnings \o WarningsOf(findings)

\* a call that keeps what self.errors and self.warnings held
QC_Reset_KeepFindings ==
  /\ qc_pc = "start"
  /\ qc_pc' = "fill_in_blank"
  /\ UNCHANGED <<qc_left, qc_fill_in_blank, qc_flashcards, qc_spelling, qc_stdout, qc_result,
                 qc_errors, qc_warnings>>
  /\ QC_Frame

\* lines 20-21
QC_Reset ==
  /\ qc_pc = "start"
  /\ qc_errors' = <<>>
  /\ qc_warnings' = <<>>
  /\ qc_pc' = "fill_in_blank"
  /\ UNCHANGED <<qc_left, qc_fill_in_blank, qc_flashcards, qc_spelling, qc_stdout, qc_result>>
  /\ QC_Frame

\* line 24: _check_fill_in_blank, lines 51-88
QC_CheckFillInBlank ==
  /\ qc_pc = "fill_in_blank"
  /\ QC_Record(Flatten([i \in 1..Len(qc_fill_in_blank) |->
                          CheckFillInBlank(qc_fill_in_blank[i], i)]))
  /\ qc_pc' = "flashcards"
  /\ UNCHANGED <<qc_left, qc_fill_in_blank, qc_flashcards, qc_spelling, qc_stdout, qc_result>>
  /\ QC_Frame

\* line 25: _check_flashcards, lines 90-114
QC_CheckFlashcards ==
  /\ qc_pc = "flashcards"
  /\ QC_Record(Flatten([i \in 1..Len(qc_flashcards) |-> CheckFlashcard(qc_flashcards, i)]))
  /\ qc_pc' = "spelling"
  /\ UNCHANGED <<qc_left, qc_fill_in_blank, qc_flashcards, qc_spelling, qc_stdout, qc_result>>
  /\ QC_Frame

\* line 26: _check_spelling, lines 116-143
QC_CheckSpelling ==
  /\ qc_pc = "spelling"
  /\ QC_Record(Flatten([i \in 1..Len(qc_spelling) |-> CheckSpelling(qc_spelling, i)]))
  /\ qc_pc' = "total"
  /\ UNCHANGED <<qc_left, qc_fill_in_blank, qc_flashcards, qc_spelling, qc_stdout, qc_result>>
  /\ QC_Frame

\* lines 28-33
QC_CheckTotal ==
  /\ qc_pc = "total"
  /\ QC_Record(CheckTotal(Len(qc_fill_in_blank) + Len(qc_flashcards) + Len(qc_spelling)))
  /\ qc_pc' = "report"
  /\ UNCHANGED <<qc_left, qc_fill_in_blank, qc_flashcards, qc_spelling, qc_stdout, qc_result>>
  /\ QC_Frame

\* lines 35-49: the report is printed and the value returned
QC_Return ==
  /\ qc_pc = "report"
  /\ qc_stdout = "utf-8"
  /\ qc_result' = Valid(qc_errors, qc_warnings)
  /\ qc_pc' = "returned"
  /\ UNCHANGED <<qc_left, qc_fill_in_blank, qc_flashcards, qc_spelling, qc_stdout, qc_errors, qc_warnings>>
  /\ QC_Frame

\* lines 35-47 when standard output cannot encode the marks of the report: one
\* of the three is always printed, and print raises UnicodeEncodeError
QC_ReportRaises ==
  /\ qc_pc = "report"
  /\ qc_stdout = "ascii"
  /\ qc_pc' = "raised"
  /\ UNCHANGED <<qc_left, qc_fill_in_blank, qc_flashcards, qc_spelling, qc_stdout, qc_errors, qc_warnings,
                 qc_result>>
  /\ QC_Frame

\* the arguments of a later call on the same checker: lists without a finding,
\* three empty lists, and a list with an exercise that has no blank
QC_LaterCalls ==
  {[fill_in_blank |-> <<QC_Good, QC_GoodToo, QC_Good, QC_GoodToo, QC_Good>>,
    flashcards    |-> <<QC_CardHotel, QC_CardBread, QC_CardMusic>>,
    spelling      |-> <<QC_SpellHotel, QC_SpellBread>>],
   [fill_in_blank |-> <<>>, flashcards |-> <<>>, spelling |-> <<>>],
   [fill_in_blank |-> <<QC_NoBlank>>, flashcards |-> <<QC_CardHotel>>, spelling |-> <<>>]}

\* validate_exercises is called again on the checker an earlier call has left,
\* whether that call returned or raised: self.errors and self.warnings are
\* what the earlier call recorded
QC_CallAgain ==
  /\ qc_pc \in {"returned", "raised"}
  /\ \E a \in QC_LaterCalls :
       /\ qc_fill_in_blank' = a.fill_in_blank
       /\ qc_flashcards' = a.flashcards
       /\ qc_spelling' = a.spelling
  /\ qc_left' = [errors |-> qc_errors, warnings |-> qc_warnings]
  /\ qc_result' = "none"
  /\ qc_pc' = "start"
  /\ UNCHANGED <<qc_stdout, qc_errors, qc_warnings>>
  /\ QC_Frame

QC_Next ==
  \/ QC_Reset
  \/ QC_CheckFillInBlank
  \/ QC_CheckFlashcards
  \/ QC_CheckSpelling
  \/ QC_CheckTotal
  \/ QC_Return
  \/ QC_ReportRaises
  \/ QC_CallAgain

SpecQC == QC_Init /\ [][QC_Next]_vars

(***************************************************************************)
(* Claims on QualityChecker.validate_exercises                             *)
(***************************************************************************)
\* C19: validate_exercises returns True exactly when it recorded no error;
\* warnings never fail the check: when the only findings are warnings the
\* value returned is True.
C19_ValidIffNoErrors ==
  qc_pc = "returned" =>
    /\ qc_result = TRUE <=> Len(qc_errors) = 0
    /\ qc_result \in BOOLEAN
    /\ Len(qc_errors) = 0 /\ Len(qc_warnings) > 0 => qc_result = TRUE

\* the findings with the given message
QC_Warnings(message) == {k \in 1..Len(qc_warnings) : qc_warnings[k][4] = message}

\* True was returned for lists whose findings are warnings: equal options, a
\* short sentence, a flashcard word met before, a total above 12
C19_Witness ==
  /\ qc_pc = "returned"
  /\ qc_result = TRUE
  /\ QC_Warnings("Duplicate options detected") # {}
  /\ QC_Warnings("Sentence too short") # {}
  /\ QC_Warnings("Duplicate word") # {}
  /\ QC_Warnings("above maximum (12)") # {}

\* the structural violations of a fill-in-blank item: no blank marker, an empty
\* option, a correct word that is not one of the four options, a letter other
\* than A, B, C, D. An item that names no correct word has none to miss.
QC_ItemViolation(ex) ==
  \/ ~Contains(ex.sentence, BLANK)
  \/ <<>> \in {ex.option_a, ex.option_b, ex.option_c, ex.option_d}
  \/ ex.correct_word # <<>> /\ ex.correct_word \notin {ex.option_a, ex.option_b, ex.option_c, ex.option_d}
  \/ ex.correct_answer \notin {"A", "B", "C", "D"}

QC_Violation ==
  \/ \E i \in 1..Len(qc_fill_in_blank) : QC_ItemViolation(qc_fill_in_blank[i])
  \/ \E i \in 1..Len(qc_flashcards) :
       qc_flashcards[i].word = <<>> \/ qc_flashcards[i].translation = <<>>
  \/ \E i \in 1..Len(qc_spelling) :
       \/ qc_spelling[i].word = <<>>
       \/ \E j \in 1..(i - 1) : Lower(qc_spelling[j].word) = Lower(qc_spelling[i].word)

C21_FourNonEmptyOptions ==
  FB_Produced =>
    /\ \A k \in 1..4 : FB_Options(fb_result)[k] # <<>>
    /\ \A rng \in 0..(Fact(3) - 1) :
         /\ Len(FallbackDistractorsBy(fb_result.correct_word, 3, rng)) = 3
         /\ <<>> \notin Range(FallbackDistractorsBy(fb_result.correct_word, 3, rng))

(***************************************************************************)
(* The balancing loop of process_lesson (main.py lines 67-82) on its own   *)
(***************************************************************************)
\* the longest list the loop is started with
MaxGenerated == 8

\* a list of n items, each standing for an exercise
BL_List(n) == [k \in 1..n |-> k]

BL_Frame ==
  UNCHANGED <<ec_vars, fb_vars, gq_vars, cz_vars, pl_vars, me_vars, sp_vars, fg_vars, qc_vars>>

\* lines 63-65: the three lists, of any lengths
BL_Init ==
  /\ EC_Idle
  /\ FB_Idle
  /\ GQ_Idle
  /\ CZ_Idle
  /\ PL_Idle
  /\ ME_Idle
  /\ SP_Idle
  /\ FG_Idle
  /\ QC_Idle
  /\ \E f, c, s \in 0..MaxGenerated :
       bl_generated = [fill_in_blank |-> BL_List(f), flashcards |-> BL_List(c),
                       spelling |-> BL_List(s)]
  /\ bl_lists = bl_generated
  /\ bl_total = 0
  /\ bl_pc = "total"

\* line 68
BL_Total ==
  /\ bl_pc = "total"
  /\ bl_total' = Total(bl_lists)
  /\ bl_pc' = "while"
  /\ UNCHANGED <<bl_generated, bl_lists>>
  /\ BL_Frame

\* lines 73-80: one pass of the loop, total recomputed at its end
BL_Pass ==
  /\ bl_pc = "while"
  /\ bl_total > 12
  /\ bl_lists' = TrimOnce(bl_lists)
  /\ bl_total' = Total(TrimOnce(bl_lists))
  /\ UNCHANGED <<bl_generated, bl_pc>>
  /\ BL_Frame

\* lines 71 and 73: total is not above 12
BL_Exit ==
  /\ bl_pc = "while"
  /\ bl_total <= 12
  /\ bl_pc' = "done"
  /\ UNCHANGED <<bl_generated, bl_lists, bl_total>>
  /\ BL_Frame

BL_Next == BL_Total \/ BL_Pass \/ BL_Exit

SpecBL == BL_Init /\ [][BL_Next]_vars

\* the interpreter goes on running the loop
FairSpecBL == SpecBL /\ WF_vars(BL_Next)

(***************************************************************************)
(* Claims on the balancing loop                                            *)
(***************************************************************************)
\* C22: started from any lengths of the three lists the loop terminates: every
\* pass made with total above 12 leaves total smaller, and the loop is left.
C22_LoopTerminates ==
  /\ [][bl_pc = "while" /\ bl_total > 12 => bl_total' < bl_total]_vars
  /\ <>(bl_pc = "done")

\* the loop was left after it had run from a total above 12
C22_Witness ==
  /\ bl_pc = "done"
  /\ Total(bl_generated) > 12
  /\ bl_total <= 12

\* q is p or p without some of its last items
IsPrefix(q, p) == Len(q) <= Len(p) /\ q = SubSeq(p, 1, Len(q))

\* C23: a pass of the loop removes exactly one item: the last of spelling when
\* spelling has more than 2, otherwise the last of flashcards when flashcards
\* has more than 3, otherwise the last of fill_in_blank when it has more than 3.
\* No list is trimmed below its floor (2, 3, 3), every list stays a prefix of
\* the generated list, and a run started above 12 ends with total 12.
C23_OneItemByPriority ==
  /\ [][bl_pc = "while" /\ bl_total > 12 =>
          /\ Total(bl_lists') = Total(bl_lists) - 1
          /\ Len(bl_lists.spelling) > 2 =>
               /\ bl_lists'.spelling = DropLast(bl_lists.spelling, 1)
               /\ bl_lists'.flashcards = bl_lists.flashcards
               /\ bl_lists'.fill_in_blank = bl_lists.fill_in_blank
          /\ Len(bl_lists.spelling) <= 2 /\ Len(bl_lists.flashcards) > 3 =>
               /\ bl_lists'.flashcards = DropLast(bl_lists.flashcards, 1)
               /\ bl_lists'.spelling = bl_lists.spelling
               /\ bl_lists'.fill_in_blank = bl_lists.fill_in_blank
          /\ Len(bl_lists.spelling) <= 2 /\ Len(bl_lists.flashcards) <= 3 =>
               /\ Len(bl_lists.fill_in_blank) > 3
               /\ bl_lists'.fill_in_blank = DropLast(bl_lists.fill_in_blank, 1)
               /\ bl_lists'.spelling = bl_lists.spelling
               /\ bl_lists'.flashcards = bl_lists.flashcards
          /\ Len(bl_lists'.spelling) < Len(bl_lists.spelling) => Len(bl_lists'.spelling) >= 2
          /\ Len(bl_lists'.flashcards) < Len(bl_lists.flashcards) => Len(bl_lists'.flashcards) >= 3
          /\ Len(bl_lists'.fill_in_blank) < Len(bl_lists.fill_in_blank) =>
               Len(bl_lists'.fill_in_blank) >= 3]_vars
  /\ [](/\ IsPrefix(bl_lists.spelling, bl_generated.spelling)
        /\ IsPrefix(bl_lists.flashcards, bl_generated.flashcards)
        /\ IsPrefix(bl_lists.fill_in_blank, bl_generated.fill_in_blank)
        /\ bl_pc = "done" /\ Total(bl_generated) > 12 => bl_total = 12 /\ Total(bl_lists) = 12)

\* the loop was left after passes through each of the three branches
C23_Witness ==
  /\ bl_pc = "done"
  /\ Len(bl_lists.spelling) < Len(bl_generated.spelling)
  /\ Len(bl_lists.flashcards) < Len(bl_generated.flashcards)
  /\ Len(bl_lists.fill_in_blank) < Len(bl_generated.fill_in_blank)

(***************************************************************************)
(* Claims on the options of a cloze blank                                  *)
(***************************************************************************)
\* C24: the synthesis of the distractors of a cloze blank terminates for every
\* correct word and returns four options: the correct word and three distinct
\* distractors.
C24_DistractorsReturnFour ==
  /\ cz_pc # "hang"
  /\ cz_pc # Idle =>
       \A k \in 1..Len(cz_items) :
         \A j \in 1..Len(cz_items[k].options) :
           /\ Len(cz_items[k].options[j]) = 4
           /\ Cardinality(Range(cz_items[k].options[j])) = 4

BlanksOf(q) == {k \in 1..Len(SplitWS(q.prompt)) : SplitWS(q.prompt)[k] = GQ_BLANK}

\* C26: the prompt of a question made from a mistake is the correct sentence
\* with exactly one token replaced by "____" and every other token unchanged,
\* and the replaced token is the mistake's focus word (compared without case
\* and attached punctuation).
C26_PromptBlanksFocusWord ==
  gq_pc = "done" =>
    \A n \in 1..Len(gq_questions) :
      gq_questions[n].origin = "mistake" =>
        /\ Len(SplitWS(gq_questions[n].prompt)) = Len(SplitWS(gq_questions[n].source.correct))
        /\ Cardinality(BlanksOf(gq_questions[n])) = 1
        /\ \A k \in 1..Len(SplitWS(gq_questions[n].prompt)) :
             IF k \in BlanksOf(gq_questions[n])
             THEN CleanWord(SplitWS(gq_questions[n].source.correct)[k])
                    = CleanWord(gq_questions[n].source.focus_word)
             ELSE SplitWS(gq_questions[n].prompt)[k]
                    = SplitWS(gq_questions[n].source.correct)[k]

\* C28: exactly one option of a fill-in-blank exercise, and of a grammar
\* question made from a mistake, equals the correct answer.
C28_OneOptionIsCorrect ==
  /\ FB_Produced =>
       Cardinality({k \in 1..4 : FB_Options(fb_result)[k] = fb_result.correct_word}) = 1
  /\ gq_pc = "done" =>
       \A n \in 1..Len(gq_questions) :
         gq_questions[n].origin = "mistake" =>
           Cardinality({k \in 1..Len(gq_questions[n].options) :
                          gq_questions[n].options[k]
                            = gq_questions[n].options[gq_questions[n].correct_index + 1]}) = 1

\* C29: the token the prompt replaces by "____" is the keyed option, compared
\* without case and attached punctuation.
C29_BlankIsKeyedOption ==
  gq_pc = "done" =>
    \A n \in 1..Len(gq_questions) :
      gq_questions[n].origin = "mistake" =>
        \A k \in BlanksOf(gq_questions[n]) :
          CleanWord(SplitWS(gq_questions[n].source.correct)[k])
            = CleanWord(gq_questions[n].options[gq_questions[n].correct_index + 1])

(***************************************************************************)
(* Claims on what validate_exercises keeps from one call to the next       *)
(***************************************************************************)
\* lines 24-33: everything the checks find in the three lists, in order
QC_FindingsOf(fill_in_blank, flashcards, spelling) ==
  Flatten([i \in 1..Len(fill_in_blank) |-> CheckFillInBlank(fill_in_blank[i], i)])
    \o Flatten([i \in 1..Len(flashcards) |-> CheckFlashcard(flashcards, i)])
    \o Flatten([i \in 1..Len(spelling) |-> CheckSpelling(spelling, i)])
    \o CheckTotal(Len(fill_in_blank) + Len(flashcards) + Len(spelling))

\* the errors, the warnings and the value returned are those of the arguments
QC_OfArguments ==
  qc_pc \in {"report", "returned", "raised"} =>
    /\ qc_errors = ErrorsOf(QC_FindingsOf(qc_fill_in_blank, qc_flashcards, qc_spelling))
    /\ qc_warnings = WarningsOf(QC_FindingsOf(qc_fill_in_blank, qc_flashcards, qc_spelling))
    /\ qc_pc = "returned" =>
         qc_result = (ErrorsOf(QC_FindingsOf(qc_fill_in_blank, qc_flashcards, qc_spelling)) = <<>>)

\* C27: validate_exercises leaves the three lists it is given as they are, and
\* what a call records and returns depends on its arguments only, whatever an
\* earlier call on the same checker has left in errors and warnings.
C27_NoStateAcrossCalls ==
  /\ []QC_OfArguments
  /\ [][qc_pc \notin {"returned", "raised"} =>
          UNCHANGED <<qc_fill_in_blank, qc_flashcards, qc_spelling>>]_vars

\* a call has returned True without a finding on a checker that an earlier call
\* left with errors and warnings
C27_Witness ==
  /\ qc_pc = "returned"
  /\ qc_left.errors # <<>>
  /\ qc_left.warnings # <<>>
  /\ qc_errors = <<>>
  /\ qc_warnings = <<>>
  /\ qc_result = TRUE

(***************************************************************************)
(* Claims on reading a cloze item back                                     *)
(***************************************************************************)
\* text_parts[0], correct[0], text_parts[1], ..., correct[n-1], text_parts[n]
\* as one string
RECURSIVE Interleave(_, _)
Interleave(text_parts, correct) ==
  IF correct = <<>> \/ Len(text_parts) < 2
  THEN Join(text_parts, <<>>)
  ELSE Head(text_parts) \o Head(correct) \o Interleave(Tail(text_parts), Tail(correct))

\* C30: for every cloze item, the text parts interleaved with the correct words
\* and split on whitespace are the words of the source sentence.
C30_PartsAndAnswersGiveTheSentence ==
  cz_pc # Idle =>
    \A k \in 1..Len(cz_items) :
      /\ Len(cz_items[k].text_parts) = Len(cz_items[k].correct) + 1
      /\ SplitWS(Interleave(cz_items[k].text_parts, cz_items[k].correct))
           = SplitWS(cz_items[k].sentence)

=============================================================================
